---- MODULE Spec2Model ----
(***************************************************************************)
(* NEXUS swarm coordination engine: the task graph (agents/task.py), the   *)
(* agent pool (agents/pool.py), the goal-execution protocol of the         *)
(* SwarmOrchestrator (agents/orchestrator.py), the message bus             *)
(* (agents/message_bus.py) and the consensus engine (agents/consensus.py). *)
(*                                                                         *)
(* Python None is the string "none" (for agent ids: 0).  An agent id is    *)
(* the position of the agent in the pool's dict, which is insertion        *)
(* ordered: spawn gives every agent a fresh id.  depends_on is kept as a   *)
(* set: the code reads it only through all(...) and a loop whose effect    *)
(* (the prompt context) is no state.  The orchestrator is the one built by *)
(* SwarmOrchestrator(llm, memory, max_agents=.., enable_critic=..), that   *)
(* is with event_bus=None, so that no event is published.                  *)
(***************************************************************************)
EXTENDS Integers, Sequences, FiniteSets, TLC

VARIABLES
    tasks,          \* TaskDAG._tasks: task id -> Task
    order,          \* insertion order of the keys of TaskDAG._tasks
    agents,         \* AgentPool._agents, in insertion order: id -> [role, state]
    semaphore,      \* AgentPool._semaphore: the permits still available
    max_agents,     \* AgentPool._max_agents
    enable_critic,  \* SwarmOrchestrator._enable_critic
    bus_agents,     \* MessageBus._agents: the ids registered on the bus
    pc,             \* position of the execute_goal generator
    updates,        \* the SwarmUpdates yielded so far
    final_results,  \* execute_goal's final_results dict
    ready,          \* the wave: the list get_ready_tasks() returned
    co,             \* the wave's _execute_task coroutines: id -> [st, val, agent]
    idx,            \* position of the result loop (orchestrator.py:170) in ready
    exc,            \* the exception that left execute_goal, "none" if none
    held,           \* the planner or critic execute_goal has acquired and not
                    \* released (its local planner / critic), 0 if none
    ops,            \* how many operations a client has called directly
    inbox,          \* BaseAgent._inbox of every agent: id -> queue of messages
    topics,         \* MessageBus._topics: topic -> set of subscribed ids
    dead_letters,   \* MessageBus._dead_letters
    message_count,  \* MessageBus._message_count
    stamp,          \* how many messages the clients of the bus have built
    proposals,      \* ConsensusEngine._proposals: id -> Proposal
    strategy,       \* ConsensusEngine._strategy
    handlers,       \* EventBus._handlers: event type -> list of handlers
    queue,          \* EventBus._queue
    running,        \* EventBus._running
    bus_task,       \* EventBus._task and the position of its _process coroutine
    caller,         \* position of the coroutine that calls start() and stop()
    delivered,      \* the handler invocations so far: <<event number, handler>>
    published,      \* how many events have been published
    sessions,       \* WorkingMemory._sessions: session id -> list of messages
    receiving,      \* per agent, the receive_message calls that have not returned
    runs,           \* per concurrent execute_goal call, its generator and its graph
    last            \* the last call of a client and what it returned

\* the state of the message bus outside its registry, of the consensus engine,
\* and the record of the last call
busVars == <<inbox, topics, dead_letters, message_count, stamp>>
consVars == <<proposals, strategy>>
\* the event bus and the working memory (nexus/core, nexus/memory)
evVars == <<handlers, queue, running, bus_task, caller, delivered, published>>
coreVars == <<evVars, sessions, receiving, runs>>
compVars == <<busVars, consVars, coreVars, last>>

vars == <<tasks, order, agents, semaphore, max_agents, enable_critic, bus_agents,
          pc, updates, final_results, ready, co, idx, exc, held, ops, compVars>>

dagVars == <<tasks, order>>
\* the orchestrator's generator
genVars == <<pc, updates, final_results, ready, co, idx, exc, held>>
runVars == <<agents, semaphore, max_agents, enable_critic, bus_agents,
             pc, updates, final_results, ready, co, idx, exc, held>>

(***************************************************************************)
(* Bounds and input sets                                                   *)
(***************************************************************************)
\* the largest max_agents a run is configured with
MaxAgentsBound == 2
\* the longest sequence of TaskDAG operations a client calls directly
MaxOps == 5

\* the largest pool a client of the AgentPool lets grow
MaxPool == 3
\* the most messages the clients of the MessageBus build
MaxMsgs == 1
\* the most messages the clients build for agents that read their inbox
MaxMail == 3
MaxWaiting == 2
\* the longest sequence of ConsensusEngine operations a client calls
MaxVoteOps == 5

\* the ids the planner's output uses (tests/unit/test_task_dag.py:100-103)
TaskIds == {"a1", "a2", "b1", "b2"}
\* the order in which the planner's output lists them
IdOrder == <<"a1", "a2", "b1", "b2">>
\* the id uuid4 gives the fallback task
FallbackId == "u1"

\* the dependency lists the planner's output gives a task: chains a1->a2 and
\* b1->b2, a join, a cycle b1<->b2 and a self-dependency
DepChoices(id) ==
    CASE id = "a1" -> {{}}
      [] id = "a2" -> {{"a1"}, {"a1", "b1"}}
      [] id = "b1" -> {{}, {"b2"}}
      [] id = "b2" -> {{"b1"}, {"b2"}}

\* the preferred_role the planner's output gives a task
RoleChoices(id) == IF id = "a1" THEN {"executor", "coordinator"} ELSE {"none"}

\* what a task execution returns, and the text of the Exception it raises
\* (a BaseException such as CancelledError is outside the model)
Results == {"r1", "r2"}
Errors == {"e1"}

\* the text of orchestrator.py:155, its dash written in ASCII
DeadlockError == "Deadlock - unresolvable dependencies"

Roles == {"planner", "executor", "researcher", "critic", "coordinator"}

EmptyFn == [x \in {} |-> "none"]

Last(s) == s[Len(s)]

(***************************************************************************)
(* Task and TaskDAG (agents/task.py)                                       *)
(***************************************************************************)
\* Task(id=.., depends_on=.., preferred_role=..): the other fields default
Task(id, deps, role) ==
    [id |-> id, status |-> "pending", depends_on |-> deps,
     assigned_to |-> 0, preferred_role |-> role,
     result |-> "none", error |-> "none"]

\* the Task objects add_task is called with
TaskInputs ==
    {Task(id, d, r) : <<id, d, r>> \in
        {x \in TaskIds \X (SUBSET TaskIds) \X (Roles \cup {"none"}) :
            x[2] \in DepChoices(x[1]) /\ x[3] \in RoleChoices(x[1])}}

\* TaskDAG.add_task: self._tasks[task.id] = task
AddTask(ts, task) ==
    [i \in DOMAIN ts \cup {task.id} |-> IF i = task.id THEN task ELSE ts[i]]

\* a dict keeps the position of a key that is assigned again
AddOrder(ts, ord, task) ==
    IF task.id \in DOMAIN ts THEN ord ELSE Append(ord, task.id)

\* a dependency that is not in the graph counts as met
DepsMetIgnoreMissing(ts, id) ==
    \A d \in ts[id].depends_on : d \in DOMAIN ts => ts[d].status = "completed"

DepsMet(ts, id) ==
    \A d \in ts[id].depends_on : d \in DOMAIN ts /\ ts[d].status = "completed"

\* every pending task is ready
GetReadyTasksPendingOnly(ts, ord) ==
    SelectSeq(ord, LAMBDA id : ts[id].status = "pending")

\* the status of a task is not looked at
GetReadyTasksAnyStatus(ts, ord) == SelectSeq(ord, LAMBDA id : DepsMet(ts, id))

\* TaskDAG.get_ready_tasks: the ids of the returned tasks, in dict order
GetReadyTasks(ts, ord) ==
    SelectSeq(ord, LAMBDA id : ts[id].status = "pending" /\ DepsMet(ts, id))

\* TaskDAG.mark_in_progress
MarkInProgress(ts, id) ==
    IF id \in DOMAIN ts THEN [ts EXCEPT ![id].status = "in_progress"] ELSE ts

\* the result is stored and the status left as it was
MarkCompletedKeepsStatus(ts, id, result) ==
    IF id \in DOMAIN ts THEN [ts EXCEPT ![id].result = result] ELSE ts

\* TaskDAG.mark_completed: the new task table
MarkCompleted(ts, id, result) ==
    IF id \in DOMAIN ts
    THEN [ts EXCEPT ![id].status = "completed", ![id].result = result]
    ELSE ts

\* the error text is dropped
MarkFailedNoError(ts, id, error) ==
    IF id \in DOMAIN ts THEN [ts EXCEPT ![id].status = "failed"] ELSE ts

\* TaskDAG.mark_failed
MarkFailed(ts, id, error) ==
    IF id \in DOMAIN ts
    THEN [ts EXCEPT ![id].status = "failed", ![id].error = error]
    ELSE ts

Terminal == {"completed", "failed", "cancelled"}

\* TaskDAG.is_complete
IsComplete(ts) == \A id \in DOMAIN ts : ts[id].status \in Terminal

\* an entry for every completed task, None results too
GetResultsAll(ts) ==
    [id \in {t \in DOMAIN ts : ts[t].status = "completed"} |-> ts[id].result]

\* TaskDAG.get_results: the dict of id and result of the tasks that are
\* completed and whose result is not None
GetResults(ts) ==
    [id \in {t \in DOMAIN ts : ts[t].status = "completed" /\ ts[t].result # "none"}
        |-> ts[id].result]

(***************************************************************************)
(* AgentPool (agents/pool.py)                                              *)
(***************************************************************************)
\* AgentPool.spawn: a new idle agent under a fresh id, the next position
Spawn(ags, role) == Append(ags, [role |-> role, state |-> "idle"])

\* the first agent of the role, whatever its state
GetIdleAnyState(ags, role) ==
    LET all == {i \in 1..Len(ags) : ags[i].role = role}
    IN  IF all = {} THEN 0 ELSE CHOOSE i \in all : \A j \in all : i <= j

\* AgentPool.get_idle: the first idle agent of the role, 0 for None
GetIdle(ags, role) ==
    LET idle == {i \in 1..Len(ags) : ags[i].role = role /\ ags[i].state = "idle"}
    IN  IF idle = {} THEN 0 ELSE CHOOSE i \in idle : \A j \in idle : i <= j

\* AgentPool.acquire: the id of the agent it returns
AcquireId(ags, role) ==
    IF GetIdle(ags, role) # 0 THEN GetIdle(ags, role) ELSE Len(ags) + 1

\* AgentPool.acquire: the pool it leaves
Acquire(ags, role) ==
    IF GetIdle(ags, role) # 0
    THEN [ags EXCEPT ![GetIdle(ags, role)].state = "working"]
    ELSE [Spawn(ags, role) EXCEPT ![Len(ags) + 1].state = "working"]

\* the agent is not found and stays as it is
ReleaseForgets(ags, id) == ags

\* AgentPool.release
Release(ags, id) ==
    IF id \in 1..Len(ags) THEN [ags EXCEPT ![id].state = "idle"] ELSE ags

Working(ags) == {i \in 1..Len(ags) : ags[i].state = "working"}

(***************************************************************************)
(* MessageBus (agents/message_bus.py) and the inbox of an agent            *)
(* (agents/base.py)                                                        *)
(***************************************************************************)
\* the ids of the agents that hold an inbox: 1 is the coordinator, which the
\* orchestrator registers at construction; ids are also what a client passes
\* as from_agent, to_agent and as the id to subscribe
BusAgentIds == {1, 2, 3}
\* the ids a client passes as from_agent
Senders == {1, 2}
Topics == {"research"}

\* the call a client has not made yet
NoCall == [op |-> "none"]
\* receive_message returning None
NoMessage == [from_agent |-> 0, to_agent |-> 0, content |-> 0, msg_type |-> "none"]

\* AgentMessage(from_agent, to_agent, content, msg_type); content is the
\* number of the message among those the clients have built
AgentMessage(from, to, content, msg_type) ==
    [from_agent |-> from, to_agent |-> to, content |-> content,
     msg_type |-> msg_type]

\* the message goes in front of the queue
PutFront(q, m) == <<m>> \o q

\* asyncio.Queue.put on the unbounded _inbox
Put(q, m) == Append(q, m)

\* MessageBus.register_agent
RegisterAgent(reg, id) == reg \cup {id}

\* the subscriptions are kept
UnregisterTopicsKeeps(tp, id) == tp

\* MessageBus.unregister_agent: the registry and the topics it leaves
UnregisterAgent(reg, id) == reg \ {id}
UnregisterTopics(tp, id) == [t \in DOMAIN tp |-> tp[t] \ {id}]

\* MessageBus.subscribe_topic and unsubscribe_topic
SubscribeTopic(tp, id, topic) == [tp EXCEPT ![topic] = @ \cup {id}]
UnsubscribeTopic(tp, id, topic) == [tp EXCEPT ![topic] = @ \ {id}]

\* the message is delivered whoever the recipient is
SendReturnAlways(reg, msg) == TRUE

\* MessageBus.send: what it returns, and the inboxes and dead letters it leaves
SendReturn(reg, msg) == msg.to_agent \in reg
SendInbox(reg, ib, msg) ==
    IF SendReturn(reg, msg) /\ msg.to_agent \in DOMAIN ib
    THEN [ib EXCEPT ![msg.to_agent] = Put(@, msg)]
    ELSE ib
SendDeadLetters(reg, dl, msg) ==
    IF SendReturn(reg, msg) THEN dl ELSE Append(dl, msg)

\* the counter is left as it is
SendCountKeeps(n) == n

\* MessageBus.send, line 68
SendCount(n) == n + 1

\* the loops of broadcast and publish_to_topic: one message for each target
Deliver(ib, targets, from, content, msg_type) ==
    [a \in DOMAIN ib |->
        IF a \in targets
        THEN Put(ib[a], AgentMessage(from, a, content, msg_type))
        ELSE ib[a]]

\* every registered agent, the sender too
BroadcastTargetsAll(reg, from) == reg

\* MessageBus.broadcast: the agents it writes to; it returns their number
BroadcastTargets(reg, from) == reg \ {from}

\* every subscriber
PublishTargetsAll(reg, tp, from, topic) == tp[topic] \cap reg

\* MessageBus.publish_to_topic: the agents it writes to; it returns their number
PublishTargets(reg, tp, from, topic) == (tp[topic] \ {from}) \cap reg

\* the receive_message calls in progress, on all agents
RECURSIVE InProgress(_, _)
InProgress(rc, ids) ==
    IF ids = {} THEN 0
    ELSE LET a == CHOOSE x \in ids : TRUE
         IN rc[a].waiting + Len(rc[a].held) + InProgress(rc, ids \ {a})

(***************************************************************************)
(* ConsensusEngine (agents/consensus.py)                                   *)
(***************************************************************************)
ProposalIds == {"p1", "p2"}
Voters == {"v1", "v2", "v3"}
VoteTypes == {"approve", "reject", "abstain"}
Strategies == {"majority", "supermajority", "unanimous", "weighted"}
\* the confidence a voter gives, in tenths: 1 is the float 0.1, 5 the default
\* 0.5
ConfidenceChoices(agent_id) ==
    CASE agent_id = "v1" -> {1, 5}
      [] agent_id = "v2" -> {4}
      [] agent_id = "v3" -> {5}
\* the min_voters a client passes to resolve
MinVoters == {0, 1, 2}
\* the voters of a weighted vote and the confidences they give, in tenths
WeightedVoters == {"v1", "v2", "v3", "v4"}
WeightedConfidences(agent_id) ==
    CASE agent_id = "v1" -> {1}
      [] agent_id = "v2" -> {2, 4}
      [] agent_id = "v3" -> {3}
      [] agent_id = "v4" -> {5, 6}
\* what the builtin sum() does with floats depends on the interpreter:
\*   rounded       CPython before 3.12 adds left to right, rounding each
\*                 partial sum to a double
\*   compensated   CPython 3.12 and later carries the rounding errors along
\*                 (Neumaier) and adds them to the sum at the end
SumBuilds == {"rounded", "compensated"}

Vote(agent_id, vote, confidence) ==
    [agent_id |-> agent_id, vote |-> vote, confidence |-> confidence]
\* cast_vote returning None
NoVote == Vote("none", "none", 0)

\* Proposal(proposal_id=..): no votes, not resolved, not accepted
Proposal(id) ==
    [proposal_id |-> id, votes |-> <<>>, resolved |-> FALSE, accepted |-> FALSE]

\* ConsensusEngine.create_proposal: self._proposals[proposal_id] = proposal
CreateProposal(ps, id) ==
    [x \in DOMAIN ps \cup {id} |-> IF x = id THEN Proposal(id) ELSE ps[x]]

\* the first vote of the agent in the list, 0 if it has none
ExistingVote(votes, agent_id) ==
    LET own == {i \in 1..Len(votes) : votes[i].agent_id = agent_id}
    IN  IF own = {} THEN 0 ELSE CHOOSE i \in own : \A j \in own : i <= j

\* the vote is appended whether or not the agent has voted
CastVoteTwice(ps, id, agent_id, vote, confidence) ==
    IF id \notin DOMAIN ps \/ ps[id].resolved THEN ps
    ELSE [ps EXCEPT ![id].votes = Append(@, Vote(agent_id, vote, confidence))]

\* ConsensusEngine.cast_vote: what it returns and the proposals it leaves
CastVoteReturn(ps, id, agent_id, vote, confidence) ==
    IF id \notin DOMAIN ps \/ ps[id].resolved THEN NoVote
    ELSE IF ExistingVote(ps[id].votes, agent_id) # 0
         THEN ps[id].votes[ExistingVote(ps[id].votes, agent_id)]
         ELSE Vote(agent_id, vote, confidence)
CastVote(ps, id, agent_id, vote, confidence) ==
    IF id \notin DOMAIN ps \/ ps[id].resolved THEN ps
    ELSE IF ExistingVote(ps[id].votes, agent_id) # 0 THEN ps
         ELSE [ps EXCEPT ![id].votes = Append(@, Vote(agent_id, vote, confidence))]

\* Proposal.vote_counts
VoteCounts(votes, type) ==
    Cardinality({i \in 1..Len(votes) : votes[i].vote = type})

\* A float is written [n, e]: the number n/10 + e * DoubleUnit with
\* DoubleUnit = 1/(10 * 2^55), so that sums stay within the integers.
\* Double(n) is the float of the literal n/10: the IEEE 754 double nearest to
\* it, e.g. 0.1 is 3602879701896397 / 2^55 = 1/10 + 2 * DoubleUnit
DoubleError ==
    <<2, 4, -4, 8, 0, -8, -16, 16, 8, 0>>
Double(n) == [n |-> n, e |-> IF n = 0 THEN 0 ELSE DoubleError[n]]

\* the distance, in DoubleUnit, between the doubles around n/10 + e * DoubleUnit:
\* 2^-52 times the power of two at or below it (1/16 up to 4)
Ulp(n, e) ==
    LET below(k) == n < k \/ (n = k /\ e < 0)
    IN  IF n < 2 THEN 5
        ELSE IF n < 3 THEN 10
        ELSE IF below(5) THEN 20
        ELSE IF below(10) THEN 40
        ELSE IF below(20) THEN 80
        ELSE IF below(40) THEN 160
        ELSE 320

\* the double nearest to n/10 + e * DoubleUnit, the even one of two equally
\* near (round-half-to-even); 128 is 2^55 modulo 640, and so modulo every
\* Ulp and its double
\* The differences of the doubles above 1/16 are multiples of 2^-56, which
\* is 5 * DoubleUnit; the small ones, written [0, e], are doubles themselves.
\* Rounding is symmetric around 0.
RoundDouble(n, e) ==
    LET nearest(m, d) ==
            LET u == Ulp(m, d)
                r == (128 * m + d) % u
                down == d - r
            IN  IF 2 * r < u THEN [n |-> m, e |-> down]
                ELSE IF 2 * r > u THEN [n |-> m, e |-> down + u]
                ELSE IF (128 * m + down) % (2 * u) = 0 THEN [n |-> m, e |-> down]
                ELSE [n |-> m, e |-> down + u]
    IN  IF n = 0 THEN [n |-> 0, e |-> e]
        ELSE IF n > 0 THEN nearest(n, e)
        ELSE [n |-> n, e |-> 0 - nearest(0 - n, 0 - e).e]

\* the sum of two floats without the rounding
ExactAdd(a, b) == [n |-> a.n + b.n, e |-> a.e + b.e]

\* a + b of two floats: the exact sum, rounded
FloatAdd(a, b) == RoundDouble(a.n + b.n, a.e + b.e)

\* a - b of two floats: the exact difference, rounded
FloatSub(a, b) == RoundDouble(a.n - b.n, a.e - b.e)

\* a > b of two floats
FloatGreater(a, b) == a.n > b.n \/ (a.n = b.n /\ a.e > b.e)

RECURSIVE Weight(_, _, _)
\* sum(v.confidence for v in proposal.votes if v.vote == type) of CPython
\* before 3.12: the votes are added in their order, starting from 0
Weight(votes, type, n) ==
    IF n = 0 THEN Double(0)
    ELSE IF votes[n].vote = type
         THEN FloatAdd(Weight(votes, type, n - 1), Double(votes[n].confidence))
         ELSE Weight(votes, type, n - 1)

RECURSIVE Compensated(_, _, _)
\* the loop of the same sum() in CPython 3.12 and later: f is the running
\* sum, c the compensation; every operation is a floating-point one, and
\* fabs(f) >= fabs(x) is f >= x for the confidences, which are not negative
Compensated(votes, type, n) ==
    IF n = 0 THEN [f |-> Double(0), c |-> Double(0)]
    ELSE LET s == Compensated(votes, type, n - 1)
             x == Double(votes[n].confidence)
             t == FloatAdd(s.f, x)
         IN  IF votes[n].vote # type THEN s
             ELSE IF ~FloatGreater(x, s.f)
             THEN [f |-> t, c |-> FloatAdd(s.c, FloatAdd(FloatSub(s.f, t), x))]
             ELSE [f |-> t, c |-> FloatAdd(s.c, FloatAdd(FloatSub(x, t), s.f))]

\* what that sum() returns: the compensation is added when it is not zero
WeightCompensated(votes, type) ==
    LET s == Compensated(votes, type, Len(votes))
    IN  IF s.c # Double(0) THEN FloatAdd(s.f, s.c) ELSE s.f

\* sum(v.confidence for v in proposal.votes if v.vote == type) under build
SumOf(build, votes, type) ==
    IF build = "rounded" THEN Weight(votes, type, Len(votes))
    ELSE WeightCompensated(votes, type)

\* a tie is a majority
MajorityTieAccepts(approve, total_cast) == 2 * approve >= total_cast

\* counts["approve"] > total_cast / 2, written without the division
Majority(approve, total_cast) == 2 * approve > total_cast

\* more than two thirds
SupermajorityStrict(approve, total_cast) == 3 * approve > 2 * total_cast

\* counts["approve"] >= total_cast * 2 / 3, written without the division
Supermajority(approve, total_cast) == 3 * approve >= 2 * total_cast

\* more approve than reject
UnanimousOutvotes(approve, reject) == approve > reject

\* counts["reject"] == 0 and counts["approve"] > 0
Unanimous(approve, reject) == reject = 0 /\ approve > 0

\* weighted_approve > weighted_reject
Weighted(votes, build) ==
    FloatGreater(SumOf(build, votes, "approve"), SumOf(build, votes, "reject"))

\* ConsensusEngine._evaluate
EvaluateVotes(votes, strat, build) ==
    LET approve == VoteCounts(votes, "approve")
        reject == VoteCounts(votes, "reject")
        total_cast == approve + reject
    IN  IF total_cast = 0 THEN FALSE
        ELSE CASE strat = "majority" -> Majority(approve, total_cast)
               [] strat = "supermajority" -> Supermajority(approve, total_cast)
               [] strat = "unanimous" -> Unanimous(approve, reject)
               [] strat = "weighted" -> Weighted(votes, build)

\* resolve goes through for every proposal there is
ResolvesAlways(ps, id, min_voters) == id \in DOMAIN ps

\* resolve goes through: the proposal exists and has min_voters votes that
\* are no abstention
Resolves(ps, id, min_voters) ==
    /\ id \in DOMAIN ps
    /\ VoteCounts(ps[id].votes, "approve") + VoteCounts(ps[id].votes, "reject")
         >= min_voters

\* ConsensusEngine.resolve: what it returns ("none" for None) and the
\* proposals it leaves
ResolveReturn(ps, strat, id, min_voters, build) ==
    IF ~Resolves(ps, id, min_voters) THEN "none"
    ELSE IF EvaluateVotes(ps[id].votes, strat, build) THEN "true" ELSE "false"
Resolve(ps, strat, id, min_voters, build) ==
    IF ~Resolves(ps, id, min_voters) THEN ps
    ELSE [ps EXCEPT ![id].resolved = TRUE,
                    ![id].accepted = EvaluateVotes(ps[id].votes, strat, build)]

(***************************************************************************)
(* EventBus (core/event_bus.py)                                            *)
(***************************************************************************)
\* Event, and a class derived from it (core/events.py)
EventTypes == {"Event", "UserMessageEvent"}
\* the handlers a client subscribes, each of which may await before it ends:
\* "good" returns, "bad" raises ValueError, "fatal" raises
\* asyncio.CancelledError (it awaits something that was cancelled), which
\* derives from BaseException and not from Exception
Handlers == {"bad", "good", "fatal"}
Raises(h) == h \in {"bad", "fatal"}
MaxEvents == 2
MaxHandlers == 2

\* _task is None
NoTask == [at |-> "none", cancel |-> FALSE]

\* _process: the handlers of the event's own type, then, for an event of a
\* derived type, the handlers subscribed to Event
HandlersFor(hs, type) ==
    hs[type] \o (IF type # "Event" THEN hs["Event"] ELSE <<>>)

\* _process: "except Exception" around each handler call: does the loop
\* survive what handler h did. A return and an exception of a class derived
\* from Exception do; asyncio.CancelledError is not caught
Caught(h) == h # "fatal"

\* number of subscriptions in hs
RECURSIVE Subscriptions(_, _)
Subscriptions(hs, types) ==
    IF types = {} THEN 0
    ELSE LET t == CHOOSE x \in types : TRUE
         IN Len(hs[t]) + Subscriptions(hs, types \ {t})

(***************************************************************************)
(* SwarmOrchestrator (agents/orchestrator.py)                              *)
(***************************************************************************)
\* SwarmUpdate(update_type, content, task_id=None, agent_id=None, is_final=False);
\* content is kept as the label of the message
SwarmUpdate(type, content, task_id, is_final) ==
    [update_type |-> type, content |-> content, task_id |-> task_id,
     agent_id |-> 0, is_final |-> is_final]

\* ROLE_MAP.get(task.preferred_role or "executor", AgentRole.EXECUTOR)
RoleOf(pref) == IF pref \in Roles THEN pref ELSE "executor"

\* What the completion backend answers to the evaluation prompt:
\*   direct          a JSON object with strategy "direct", or without strategy
\*   swarm           a JSON object with any other strategy
\*   unparseable     no JSON at all
\*   non_object      JSON that is no object, such as []
\*   llm_error       every provider failed (ModelRouter.complete raises)
EvalResponses == {"direct", "swarm", "unparseable", "non_object", "llm_error"}

\* CoordinatorAgent.evaluate_goal, then evaluation.get("strategy", "direct"):
\* the strategy, or the exception that leaves execute_goal
Strategy(resp) ==
    CASE resp = "direct"      -> "direct"
      [] resp = "swarm"       -> "swarm"
      [] resp = "unparseable" -> "direct"
      [] resp = "non_object"  -> "AttributeError"
      [] resp = "llm_error"   -> "LLMError"

\* What the backend answers to the decomposition prompt:
\*   plan          a JSON array of task objects that Task accepts (the empty
\*                 array and the empty JSON object give the empty plan)
\*   unparseable   no JSON, or a JSON number (JSONDecodeError, TypeError)
\*   bad_shape     a JSON object with keys, or an array of strings
\*                 (AttributeError)
\*   invalid_task  a JSON array of task objects with a field Task rejects,
\*                 such as a number as id or null as depends_on (pydantic
\*                 ValidationError)
\*   llm_error     every provider failed
PlanResponses == {"plan", "unparseable", "bad_shape", "invalid_task", "llm_error"}

\* PlannerAgent.decompose: the exception that leaves it, "none" when it
\* returns a graph; only JSONDecodeError, KeyError and TypeError are caught
DecomposeRaises(resp) ==
    CASE resp = "bad_shape"    -> "AttributeError"
      [] resp = "invalid_task" -> "ValidationError"
      [] resp = "llm_error"    -> "LLMError"
      [] OTHER                 -> "none"

\* the task lists a parsed plan holds: a choice of ids, in IdOrder, and for
\* each id one of its TaskInputs
Plans ==
    {[i \in 1..Len(s) |-> f[s[i]]] : <<s, f>> \in
        {<<SelectSeq(IdOrder, LAMBDA id : id \in S), g>> :
            <<S, g>> \in {y \in (SUBSET TaskIds) \X [TaskIds -> TaskInputs] :
                            \A id \in TaskIds : y[2][id].id = id}}}

RECURSIVE BuildTasks(_, _)
\* PlannerAgent.decompose, lines 81-89: add_task for every task of the plan
BuildTasks(plan, n) ==
    IF n = 0 THEN EmptyFn ELSE AddTask(BuildTasks(plan, n - 1), plan[n])

RECURSIVE BuildOrder(_, _)
BuildOrder(plan, n) ==
    IF n = 0 THEN <<>>
    ELSE AddOrder(BuildTasks(plan, n - 1), BuildOrder(plan, n - 1), plan[n])

\* PlannerAgent.decompose, lines 92-101: the single fallback task
FallbackPlan == <<Task(FallbackId, {}, "executor")>>

\* the execute_goal calls that run beside each other on one orchestrator
Runs == {"A", "B"}

\* a call whose generator has not run: the locals of execute_goal, the graph
\* decompose will return, and held, the planner or critic the call has
\* acquired and not released (0 if none)
NewRun ==
    [pc |-> "start", tasks |-> EmptyFn, order |-> <<>>, updates |-> <<>>,
     final_results |-> EmptyFn, ready |-> <<>>, co |-> EmptyFn, idx |-> 0,
     exc |-> "none", held |-> 0]

InitOrchestrator ==
    /\ tasks = EmptyFn
    /\ order = <<>>
    /\ max_agents \in 1..MaxAgentsBound
    /\ semaphore = max_agents
    /\ enable_critic \in BOOLEAN
    \* SwarmOrchestrator.__init__: spawn and register the coordinator
    /\ agents = Spawn(<<>>, "coordinator")
    /\ bus_agents = {1}
    /\ pc = "start"
    /\ updates = <<>>
    /\ final_results = EmptyFn
    /\ ready = <<>>
    /\ co = EmptyFn
    /\ idx = 0
    /\ exc = "none"
    /\ held = 0
    /\ ops = 0
    \* MessageBus.__init__, and the empty asyncio.Queue of BaseAgent.__init__
    /\ inbox = [a \in BusAgentIds |-> <<>>]
    /\ topics = [t \in Topics |-> {}]
    /\ dead_letters = <<>>
    /\ message_count = 0
    /\ stamp = 0
    \* ConsensusEngine.__init__
    /\ proposals = EmptyFn
    \* EventBus.__init__
    /\ handlers = [t \in EventTypes |-> <<>>]
    /\ queue = <<>>
    /\ running = FALSE
    /\ bus_task = NoTask
    /\ caller = "idle"
    /\ delivered = <<>>
    /\ published = 0
    \* WorkingMemory.__init__
    /\ sessions = EmptyFn
    \* no receive_message call is in progress
    /\ receiving = [a \in BusAgentIds |-> [waiting |-> 0, held |-> <<>>]]
    \* the generators of the concurrent execute_goal calls have not run
    /\ runs = [r \in Runs |-> NewRun]
    /\ last = NoCall

\* SwarmOrchestrator.__init__ builds ConsensusEngine() with the default strategy
Init == InitOrchestrator /\ strategy = "majority"

\* the frame of the steps of execute_goal that change pc, updates and exc only
otherThanStream == <<tasks, order, agents, semaphore, max_agents, enable_critic,
                     bus_agents, final_results, ready, co, idx, ops, held, compVars>>

\* orchestrator.py:87: the generator runs up to its first yield
EvaluateYield ==
    /\ pc = "start"
    /\ updates' = Append(updates, SwarmUpdate("status", "evaluating", "none", FALSE))
    /\ pc' = "evaluating"
    /\ UNCHANGED <<exc, otherThanStream>>

\* orchestrator.py:90-97: the generator is resumed, evaluate_goal answers and
\* the strategy is yielded, or the exception leaves execute_goal
Evaluate(resp) ==
    /\ pc = "evaluating"
    /\ LET s == Strategy(resp) IN
       IF s \in {"direct", "swarm"}
       THEN /\ updates' = Append(updates, SwarmUpdate("status", "strategy", "none", FALSE))
            /\ pc' = IF s = "direct" THEN "direct" ELSE "decompose"
            /\ exc' = exc
       ELSE /\ updates' = updates
            /\ pc' = "raised"
            /\ exc' = s
    /\ UNCHANGED otherThanStream

\* orchestrator.py:99-101: resumed after the strategy update, up to the
\* yield of "Handling directly..."
DirectYield ==
    /\ pc = "direct"
    /\ updates' = Append(updates, SwarmUpdate("status", "direct", "none", FALSE))
    /\ pc' = "direct_call"
    /\ UNCHANGED <<exc, otherThanStream>>

\* orchestrator.py:102-119: ok is whether self._llm.complete returns
Direct(ok) ==
    /\ pc = "direct_call"
    /\ IF ok
       THEN /\ updates' = Append(updates, SwarmUpdate("result", "response", "none", TRUE))
            /\ pc' = "done"
            /\ exc' = exc
       ELSE /\ updates' = updates
            /\ pc' = "raised"
            /\ exc' = "LLMError"
    /\ UNCHANGED otherThanStream

\* orchestrator.py:122: resumed after the strategy update, up to the yield
\* of "Decomposing goal into tasks..."
DecomposeYield ==
    /\ pc = "decompose"
    /\ updates' = Append(updates, SwarmUpdate("status", "decomposing", "none", FALSE))
    /\ pc' = "decomposing"
    /\ UNCHANGED <<exc, otherThanStream>>

\* orchestrator.py:123-128: the planner is acquired and registered, and
\* execute_goal waits for PlannerAgent.decompose with the planner working
DecomposeCall ==
    /\ pc = "decomposing"
    /\ agents' = Acquire(agents, "planner")
    /\ bus_agents' = bus_agents \cup {AcquireId(agents, "planner")}
    /\ held' = AcquireId(agents, "planner")
    /\ pc' = "planning"
    /\ UNCHANGED <<tasks, order, semaphore, max_agents, enable_critic, updates,
                   final_results, ready, co, idx, exc, ops, compVars>>

\* orchestrator.py:128-145 with PlannerAgent.decompose: the backend has
\* answered and the planner that was acquired is released, unless decompose
\* raises; last keeps what the decomposition call of the planner answered
Decompose(resp, plan) ==
    /\ pc = "planning"
    /\ LET p == IF resp = "plan" THEN plan ELSE FallbackPlan
       IN
       IF DecomposeRaises(resp) = "none"
       THEN /\ agents' = Release(agents, held)
            /\ held' = 0
            /\ tasks' = BuildTasks(p, Len(p))
            /\ order' = BuildOrder(p, Len(p))
            /\ updates' = Append(updates, SwarmUpdate("status", "plan", "none", FALSE))
            /\ pc' = "wave"
            /\ exc' = exc
       ELSE /\ UNCHANGED <<agents, held, tasks, order, updates>>
            /\ pc' = "raised"
            /\ exc' = DecomposeRaises(resp)
    /\ final_results' = EmptyFn
    /\ last' = [op |-> "decompose", ret |-> resp]
    /\ UNCHANGED <<semaphore, max_agents, enable_critic, bus_agents, ready, co,
                   idx, ops, busVars, consVars, coreVars>>

\* orchestrator.py:147 when dag.is_complete: the wave loop ends
WaveDone ==
    /\ pc = "wave"
    /\ IsComplete(tasks)
    /\ pc' = "review"
    /\ UNCHANGED <<tasks, order, agents, semaphore, max_agents, enable_critic,
                   bus_agents, updates, final_results, ready, co, idx, exc, ops, held, compVars>>

\* the deadlock branch takes every task of the graph
RemainingAll(ts, ord) == ord

\* the deadlock branch looks for tasks in progress
RemainingInProgress(ts, ord) == SelectSeq(ord, LAMBDA id : ts[id].status = "in_progress")

\* the tasks the deadlock branch fails (orchestrator.py:151)
Remaining(ts, ord) == SelectSeq(ord, LAMBDA id : ts[id].status = "pending")

RECURSIVE FailAll(_, _, _)
\* orchestrator.py:154-155: mark_failed for every task of the list
FailAll(ts, ids, n) ==
    IF n = 0 THEN ts ELSE MarkFailed(FailAll(ts, ids, n - 1), ids[n], DeadlockError)

\* orchestrator.py:148-153 and 156: no task is ready; with pending tasks the
\* deadlock update is yielded before any of them is failed
WaveDeadlock ==
    /\ pc = "wave"
    /\ ~IsComplete(tasks)
    /\ GetReadyTasks(tasks, order) = <<>>
    /\ ready' = <<>>
    /\ IF Remaining(tasks, order) # <<>>
       THEN /\ updates' = Append(updates, SwarmUpdate("error", "deadlock", "none", FALSE))
            /\ pc' = "deadlock"
       ELSE /\ updates' = updates
            /\ pc' = "review"
    /\ UNCHANGED <<tasks, order, agents, semaphore, max_agents, enable_critic,
                   bus_agents, final_results, co, idx, exc, ops, held, compVars>>

\* orchestrator.py:154-156: resumed after the deadlock update, the pending
\* tasks are failed and the loop is left
DeadlockFail ==
    /\ pc = "deadlock"
    /\ LET remaining == Remaining(tasks, order) IN
       tasks' = FailAll(tasks, remaining, Len(remaining))
    /\ pc' = "review"
    /\ UNCHANGED <<order, agents, semaphore, max_agents, enable_critic, bus_agents,
                   updates, final_results, ready, co, idx, exc, ops, held, compVars>>

\* orchestrator.py:148-162: the ready tasks are listed and the wave update
\* is yielded
WaveLaunch ==
    /\ pc = "wave"
    /\ ~IsComplete(tasks)
    /\ GetReadyTasks(tasks, order) # <<>>
    /\ ready' = GetReadyTasks(tasks, order)
    /\ updates' = Append(updates, SwarmUpdate("status", "wave", "none", FALSE))
    /\ pc' = "launch"
    /\ UNCHANGED <<tasks, order, agents, semaphore, max_agents, enable_critic,
                   bus_agents, final_results, co, idx, exc, ops, held, compVars>>

\* orchestrator.py:164-167: resumed after the wave update, the coroutines of
\* the ready tasks are handed to asyncio.gather
Gather ==
    /\ pc = "launch"
    /\ co' = [t \in {ready[i] : i \in 1..Len(ready)} |->
                [st |-> "new", val |-> "none", agent |-> 0]]
    /\ idx' = 0
    /\ pc' = "gather"
    /\ UNCHANGED <<tasks, order, agents, semaphore, max_agents, enable_critic,
                   bus_agents, updates, final_results, ready, exc, ops, held, compVars>>

\* the coroutine the event loop runs next for the first time: gather creates
\* the wave's tasks in the order of ready and the loop starts them in that order
NextToStart ==
    LET new == {i \in 1..Len(ready) : co[ready[i]].st = "new"}
    IN  IF new = {} THEN 0 ELSE CHOOSE i \in new : \A j \in new : i <= j

\* _execute_task up to the await of process_task (orchestrator.py:214-234);
\* the semaphore of the pool is not acquired
StartTask(t) ==
    /\ pc = "gather"
    /\ NextToStart # 0
    /\ t = ready[NextToStart]
    /\ LET role  == RoleOf(tasks[t].preferred_role)
           agent == AcquireId(agents, role)
       IN
       /\ tasks' = [MarkInProgress(tasks, t) EXCEPT ![t].assigned_to = agent]
       /\ agents' = Acquire(agents, role)
       /\ bus_agents' = bus_agents \cup {agent}
       /\ co' = [co EXCEPT ![t] = [st |-> "running", val |-> "none", agent |-> agent]]
    /\ UNCHANGED <<order, semaphore, max_agents, enable_critic, pc, updates,
                   final_results, ready, idx, exc, ops, held, compVars>>

\* process_task returns r or raises, then the finally (orchestrator.py:233-237)
FinishTask(t, outcome) ==
    /\ pc = "gather"
    /\ t \in DOMAIN co
    /\ co[t].st = "running"
    /\ co' = [co EXCEPT ![t].st = IF outcome \in Results THEN "returned" ELSE "raised",
                        ![t].val = outcome]
    /\ agents' = Release(agents, co[t].agent)
    /\ UNCHANGED <<tasks, order, semaphore, max_agents, enable_critic, bus_agents,
                   pc, updates, final_results, ready, idx, exc, ops, held, compVars>>

Settled == \A t \in DOMAIN co : co[t].st \in {"returned", "raised"}

\* the dict is replaced instead of extended
RecordOverwrite(fr, id, result) == [i \in {id} |-> result]

\* final_results[task.id] = result
Record(fr, id, result) ==
    [i \in DOMAIN fr \cup {id} |-> IF i = id THEN result ELSE fr[i]]

\* one round of the result loop, once gather has returned (orchestrator.py:170-181)
ProcessResult ==
    /\ pc = "gather"
    /\ Settled
    /\ idx < Len(ready)
    /\ LET t == ready[idx + 1] IN
       IF co[t].st = "raised"
       THEN /\ tasks' = MarkFailed(tasks, t, co[t].val)
            /\ updates' = Append(updates, SwarmUpdate("error", "task_failed", t, FALSE))
            /\ final_results' = final_results
       ELSE /\ final_results' = Record(final_results, t, co[t].val)
            /\ tasks' = MarkCompleted(tasks, t, co[t].val)
            /\ updates' = Append(updates, SwarmUpdate("task_done", "completed", t, FALSE))
    /\ idx' = idx + 1
    /\ pc' = IF idx + 1 = Len(ready) THEN "wave" ELSE "gather"
    /\ UNCHANGED <<order, agents, semaphore, max_agents, enable_critic, bus_agents,
                   ready, co, exc, ops, held, compVars>>

\* orchestrator.py:192: whether the critic reviews
ReviewRuns == enable_critic /\ final_results # EmptyFn

\* orchestrator.py:192: the review is skipped
ReviewSkip ==
    /\ pc = "review"
    /\ ~ReviewRuns
    /\ pc' = "synth"
    /\ UNCHANGED <<updates, exc, otherThanStream>>

\* orchestrator.py:192-193: up to the yield of "Critic reviewing results..."
ReviewYield ==
    /\ pc = "review"
    /\ ReviewRuns
    /\ updates' = Append(updates, SwarmUpdate("status", "critic_reviewing", "none", FALSE))
    /\ pc' = "reviewing"
    /\ UNCHANGED <<exc, otherThanStream>>

\* orchestrator.py:194-199: the critic is acquired and registered, and
\* execute_goal waits for CriticAgent.review with the critic working
ReviewCall ==
    /\ pc = "reviewing"
    /\ agents' = Acquire(agents, "critic")
    /\ bus_agents' = bus_agents \cup {AcquireId(agents, "critic")}
    /\ held' = AcquireId(agents, "critic")
    /\ pc' = "critic"
    /\ UNCHANGED <<tasks, order, semaphore, max_agents, enable_critic, updates,
                   final_results, ready, co, idx, exc, ops, compVars>>

\* orchestrator.py:199-205: ok is whether the critic's completion call
\* returns; the critic that was acquired is then released
Review(ok) ==
    /\ pc = "critic"
    /\ IF ok
       THEN /\ agents' = Release(agents, held)
            /\ held' = 0
            /\ updates' = Append(updates, SwarmUpdate("status", "critic_says", "none", FALSE))
            /\ pc' = "synth"
            /\ exc' = exc
       ELSE /\ UNCHANGED <<agents, held, updates>>
            /\ pc' = "raised"
            /\ exc' = "LLMError"
    /\ UNCHANGED <<tasks, order, semaphore, max_agents, enable_critic, bus_agents,
                   final_results, ready, co, idx, ops, compVars>>

\* orchestrator.py:208: up to the yield of "Synthesizing final answer..."
SynthesizeYield ==
    /\ pc = "synth"
    /\ updates' = Append(updates, SwarmUpdate("status", "synthesizing", "none", FALSE))
    /\ pc' = "synthesizing"
    /\ UNCHANGED <<exc, otherThanStream>>

\* orchestrator.py:209-210: ok is whether synthesize_results returns
Synthesize(ok) ==
    /\ pc = "synthesizing"
    /\ IF ok
       THEN /\ updates' = Append(updates, SwarmUpdate("result", "final", "none", TRUE))
            /\ pc' = "done"
            /\ exc' = exc
       ELSE /\ updates' = updates
            /\ pc' = "raised"
            /\ exc' = "LLMError"
    /\ UNCHANGED otherThanStream

Next ==
    \/ EvaluateYield
    \/ \E resp \in EvalResponses : Evaluate(resp)
    \/ DirectYield
    \/ \E ok \in BOOLEAN : Direct(ok)
    \/ DecomposeYield
    \/ DecomposeCall
    \/ \E resp \in PlanResponses, plan \in Plans : Decompose(resp, plan)
    \/ WaveDone
    \/ WaveDeadlock
    \/ DeadlockFail
    \/ WaveLaunch
    \/ Gather
    \/ \E t \in TaskIds \cup {FallbackId} : StartTask(t)
    \/ \E t \in TaskIds \cup {FallbackId}, o \in Results \cup Errors : FinishTask(t, o)
    \/ ProcessResult
    \/ ReviewSkip
    \/ ReviewYield
    \/ ReviewCall
    \/ \E ok \in BOOLEAN : Review(ok)
    \/ SynthesizeYield
    \/ \E ok \in BOOLEAN : Synthesize(ok)

Spec == Init /\ [][Next]_vars

\* The run under a fair event loop: a coroutine that can run does run, and a
\* task execution in flight returns or raises (asyncio runs every ready
\* callback; that process_task ends is what the callers of execute_goal rely on)
SpecFair == Spec /\ WF_vars(Next)

(***************************************************************************)
(* The TaskDAG on its own: a client calls its operations in any order      *)
(***************************************************************************)
\* the ids a client passes to the mark_ operations; FallbackId is never added
DagIds == TaskIds \cup {FallbackId}

DagAddTask(task) ==
    /\ ops < MaxOps
    /\ tasks' = AddTask(tasks, task)
    /\ order' = AddOrder(tasks, order, task)
    /\ ops' = ops + 1
    /\ last' = [op |-> "add_task", id |-> task.id]
    /\ UNCHANGED <<runVars, busVars, consVars, coreVars>>

DagMarkInProgress(id) ==
    /\ ops < MaxOps
    /\ tasks' = MarkInProgress(tasks, id)
    /\ ops' = ops + 1
    /\ last' = [op |-> "mark_in_progress", id |-> id]
    /\ UNCHANGED <<order, runVars, busVars, consVars, coreVars>>

\* mark_completed returns [] for an id that is not in the graph, and
\* get_ready_tasks() of the graph it leaves otherwise
DagMarkCompleted(id, result) ==
    /\ ops < MaxOps
    /\ tasks' = MarkCompleted(tasks, id, result)
    /\ ops' = ops + 1
    /\ last' = [op |-> "mark_completed", id |-> id, result |-> result,
                ret |-> IF id \in DOMAIN tasks
                        THEN GetReadyTasks(tasks', order) ELSE <<>>]
    /\ UNCHANGED <<order, runVars, busVars, consVars, coreVars>>

DagMarkFailed(id, error) ==
    /\ ops < MaxOps
    /\ tasks' = MarkFailed(tasks, id, error)
    /\ ops' = ops + 1
    /\ last' = [op |-> "mark_failed", id |-> id]
    /\ UNCHANGED <<order, runVars, busVars, consVars, coreVars>>

InitDag == Init /\ max_agents = 1 /\ enable_critic

NextDag ==
    \/ \E task \in TaskInputs : DagAddTask(task)
    \/ \E id \in DagIds : DagMarkInProgress(id)
    \/ \E id \in DagIds, r \in Results \cup {"none"} : DagMarkCompleted(id, r)
    \/ \E id \in DagIds, e \in Errors : DagMarkFailed(id, e)

SpecDag == InitDag /\ [][NextDag]_vars

(***************************************************************************)
(* The AgentPool on its own: a client of orchestrator.pool calls spawn,    *)
(* acquire and release in any order                                        *)
(***************************************************************************)
otherThanPool == <<dagVars, semaphore, max_agents, enable_critic, bus_agents,
                   genVars, ops, busVars, consVars, coreVars>>

PoolSpawn(role) ==
    /\ Len(agents) < MaxPool
    /\ agents' = Spawn(agents, role)
    /\ last' = [op |-> "spawn", role |-> role, ret |-> Len(agents) + 1]
    /\ UNCHANGED otherThanPool

PoolAcquire(role) ==
    /\ AcquireId(agents, role) <= MaxPool
    /\ agents' = Acquire(agents, role)
    /\ last' = [op |-> "acquire", role |-> role, ret |-> AcquireId(agents, role)]
    /\ UNCHANGED otherThanPool

PoolRelease(id) ==
    /\ agents' = Release(agents, id)
    /\ last' = [op |-> "release", role |-> "none", ret |-> id]
    /\ UNCHANGED otherThanPool

InitPool == Init /\ max_agents = 1 /\ enable_critic

NextPool ==
    \/ \E role \in Roles : PoolSpawn(role)
    \/ \E role \in Roles : PoolAcquire(role)
    \/ \E id \in 1..(MaxPool + 1) : PoolRelease(id)

SpecPool == InitPool /\ [][NextPool]_vars

(***************************************************************************)
(* Concurrent execute_goal calls on one orchestrator: every call has its   *)
(* own generator, TaskDAG and final_results, and all of them share the     *)
(* pool and the registry of the message bus. The steps are those of a      *)
(* single call, taken by one call at a time: a call is suspended at its    *)
(* yields and awaits, where the others go on                               *)
(***************************************************************************)
\* what the planner's output holds for the goal of a call: for A a task a1,
\* alone, with b1 beside it, with a2 after it or with both; for B one task
RunPlans(r) ==
    CASE r = "A" ->
            UNION {{<<Task("a1", {}, role)>>,
                    <<Task("a1", {}, role), Task("b1", {}, "none")>>,
                    <<Task("a1", {}, role), Task("a2", {"a1"}, "none")>>,
                    <<Task("a1", {}, role), Task("a2", {"a1"}, "none"),
                      Task("b1", {}, "none")>>} :
                   role \in {"none", "planner"}}
      [] r = "B" -> {<<Task("a1", {}, role)>> : role \in {"none", "planner", "critic"}}
\* what the executions of the tasks return or raise
RunOutcomes == {"r1", "e1"}

otherThanRuns == <<tasks, order, semaphore, max_agents, enable_critic, pc,
                   updates, final_results, ready, co, idx, exc, held, ops, busVars,
                   consVars, evVars, sessions, receiving, last>>
\* the frame of the steps of a call that touch neither pool nor registry
otherThanRun == <<agents, bus_agents, otherThanRuns>>

\* orchestrator.py:87: the generator runs up to its first yield
RunEvaluateYield(r) ==
    /\ runs[r].pc = "start"
    /\ runs' = [runs EXCEPT
          ![r].updates = Append(@, SwarmUpdate("status", "evaluating", "none", FALSE)),
          ![r].pc = "evaluating"]
    /\ UNCHANGED otherThanRun

\* orchestrator.py:90-97: evaluate_goal answers and the strategy is yielded,
\* or the exception leaves execute_goal
RunEvaluate(r, resp) ==
    /\ runs[r].pc = "evaluating"
    /\ LET s == Strategy(resp) IN
       runs' = IF s \in {"direct", "swarm"}
               THEN [runs EXCEPT
                       ![r].updates = Append(@, SwarmUpdate("status", "strategy", "none", FALSE)),
                       ![r].pc = IF s = "direct" THEN "direct" ELSE "decompose"]
               ELSE [runs EXCEPT ![r].pc = "raised", ![r].exc = s]
    /\ UNCHANGED otherThanRun

\* orchestrator.py:99-101: up to the yield of "Handling directly..."
RunDirectYield(r) ==
    /\ runs[r].pc = "direct"
    /\ runs' = [runs EXCEPT
          ![r].updates = Append(@, SwarmUpdate("status", "direct", "none", FALSE)),
          ![r].pc = "direct_call"]
    /\ UNCHANGED otherThanRun

\* orchestrator.py:102-119: ok is whether self._llm.complete returns
RunDirect(r, ok) ==
    /\ runs[r].pc = "direct_call"
    /\ runs' = IF ok
               THEN [runs EXCEPT
                       ![r].updates = Append(@, SwarmUpdate("result", "response", "none", TRUE)),
                       ![r].pc = "done"]
               ELSE [runs EXCEPT ![r].pc = "raised", ![r].exc = "LLMError"]
    /\ UNCHANGED otherThanRun

\* orchestrator.py:122: up to the yield of "Decomposing goal into tasks..."
RunDecomposeYield(r) ==
    /\ runs[r].pc = "decompose"
    /\ runs' = [runs EXCEPT
          ![r].updates = Append(@, SwarmUpdate("status", "decomposing", "none", FALSE)),
          ![r].pc = "decomposing"]
    /\ UNCHANGED otherThanRun

\* orchestrator.py:123-128: the planner is acquired and registered, and the
\* call waits for PlannerAgent.decompose with its planner working
RunDecomposeCall(r) ==
    /\ runs[r].pc = "decomposing"
    /\ agents' = Acquire(agents, "planner")
    /\ bus_agents' = bus_agents \cup {AcquireId(agents, "planner")}
    /\ runs' = [runs EXCEPT ![r].held = AcquireId(agents, "planner"),
                            ![r].pc = "planning"]
    /\ UNCHANGED otherThanRuns

\* orchestrator.py:128-145 with PlannerAgent.decompose: the backend has
\* answered; the call releases the planner it acquired, unless decompose
\* raises
RunDecompose(r, resp, plan) ==
    /\ runs[r].pc = "planning"
    /\ LET p == IF resp = "plan" THEN plan ELSE FallbackPlan
       IN
       IF DecomposeRaises(resp) = "none"
       THEN /\ agents' = Release(agents, runs[r].held)
            /\ runs' = [runs EXCEPT
                  ![r].held = 0,
                  ![r].tasks = BuildTasks(p, Len(p)),
                  ![r].order = BuildOrder(p, Len(p)),
                  ![r].updates = Append(@, SwarmUpdate("status", "plan", "none", FALSE)),
                  ![r].pc = "wave"]
       ELSE /\ agents' = agents
            /\ runs' = [runs EXCEPT ![r].pc = "raised",
                                    ![r].exc = DecomposeRaises(resp)]
    /\ UNCHANGED <<bus_agents, otherThanRuns>>

\* orchestrator.py:147 when dag.is_complete: the wave loop ends
RunWaveDone(r) ==
    /\ runs[r].pc = "wave"
    /\ IsComplete(runs[r].tasks)
    /\ runs' = [runs EXCEPT ![r].pc = "review"]
    /\ UNCHANGED otherThanRun

\* orchestrator.py:148-153 and 156: no task is ready; with pending tasks the
\* deadlock update is yielded before any of them is failed
RunWaveDeadlock(r) ==
    /\ runs[r].pc = "wave"
    /\ ~IsComplete(runs[r].tasks)
    /\ GetReadyTasks(runs[r].tasks, runs[r].order) = <<>>
    /\ runs' = IF Remaining(runs[r].tasks, runs[r].order) # <<>>
               THEN [runs EXCEPT
                       ![r].ready = <<>>,
                       ![r].updates = Append(@, SwarmUpdate("error", "deadlock", "none", FALSE)),
                       ![r].pc = "deadlock"]
               ELSE [runs EXCEPT ![r].ready = <<>>, ![r].pc = "review"]
    /\ UNCHANGED otherThanRun

\* orchestrator.py:154-156: the pending tasks are failed and the loop is left
RunDeadlockFail(r) ==
    /\ runs[r].pc = "deadlock"
    /\ LET remaining == Remaining(runs[r].tasks, runs[r].order) IN
       runs' = [runs EXCEPT
          ![r].tasks = FailAll(@, remaining, Len(remaining)),
          ![r].pc = "review"]
    /\ UNCHANGED otherThanRun

\* orchestrator.py:148-162: the ready tasks are listed and the wave update
\* is yielded
RunWaveLaunch(r) ==
    /\ runs[r].pc = "wave"
    /\ ~IsComplete(runs[r].tasks)
    /\ GetReadyTasks(runs[r].tasks, runs[r].order) # <<>>
    /\ runs' = [runs EXCEPT
          ![r].ready = GetReadyTasks(runs[r].tasks, runs[r].order),
          ![r].updates = Append(@, SwarmUpdate("status", "wave", "none", FALSE)),
          ![r].pc = "launch"]
    /\ UNCHANGED otherThanRun

\* orchestrator.py:164-167: the coroutines of the ready tasks are handed to
\* asyncio.gather
RunGather(r) ==
    /\ runs[r].pc = "launch"
    /\ runs' = [runs EXCEPT
          ![r].co = [t \in {runs[r].ready[i] : i \in 1..Len(runs[r].ready)} |->
                        [st |-> "new", val |-> "none", agent |-> 0]],
          ![r].idx = 0,
          ![r].pc = "gather"]
    /\ UNCHANGED otherThanRun

\* the coroutine of the wave that the event loop runs next for the first
\* time: they start in the order of ready
RunNextToStart(r) ==
    LET new == {i \in 1..Len(runs[r].ready) : runs[r].co[runs[r].ready[i]].st = "new"}
    IN  IF new = {} THEN 0 ELSE CHOOSE i \in new : \A j \in new : i <= j

\* _execute_task up to the await of process_task (orchestrator.py:214-234)
RunStartTask(r, t) ==
    /\ runs[r].pc = "gather"
    /\ RunNextToStart(r) # 0
    /\ t = runs[r].ready[RunNextToStart(r)]
    /\ LET role  == RoleOf(runs[r].tasks[t].preferred_role)
           agent == AcquireId(agents, role)
       IN
       /\ agents' = Acquire(agents, role)
       /\ bus_agents' = bus_agents \cup {agent}
       /\ runs' = [runs EXCEPT
             ![r].tasks = [MarkInProgress(@, t) EXCEPT ![t].assigned_to = agent],
             ![r].co[t] = [st |-> "running", val |-> "none", agent |-> agent]]
    /\ UNCHANGED otherThanRuns

\* process_task returns or raises, then the finally (orchestrator.py:233-237)
RunFinishTask(r, t, outcome) ==
    /\ runs[r].pc = "gather"
    /\ t \in DOMAIN runs[r].co
    /\ runs[r].co[t].st = "running"
    /\ agents' = Release(agents, runs[r].co[t].agent)
    /\ runs' = [runs EXCEPT
          ![r].co[t].st = IF outcome \in Results THEN "returned" ELSE "raised",
          ![r].co[t].val = outcome]
    /\ UNCHANGED <<bus_agents, otherThanRuns>>

\* one round of the result loop, once gather has returned (orchestrator.py:170-181)
RunProcessResult(r) ==
    /\ runs[r].pc = "gather"
    /\ \A t \in DOMAIN runs[r].co : runs[r].co[t].st \in {"returned", "raised"}
    /\ runs[r].idx < Len(runs[r].ready)
    /\ LET t == runs[r].ready[runs[r].idx + 1]
           c == runs[r].co[t]
           to == IF runs[r].idx + 1 = Len(runs[r].ready) THEN "wave" ELSE "gather"
       IN
       runs' = IF c.st = "raised"
               THEN [runs EXCEPT
                       ![r].tasks = MarkFailed(@, t, c.val),
                       ![r].updates = Append(@, SwarmUpdate("error", "task_failed", t, FALSE)),
                       ![r].idx = @ + 1,
                       ![r].pc = to]
               ELSE [runs EXCEPT
                       ![r].final_results = Record(@, t, c.val),
                       ![r].tasks = MarkCompleted(@, t, c.val),
                       ![r].updates = Append(@, SwarmUpdate("task_done", "completed", t, FALSE)),
                       ![r].idx = @ + 1,
                       ![r].pc = to]
    /\ UNCHANGED otherThanRun

\* orchestrator.py:192: whether the critic reviews the results of the call
RunReviewRuns(r) == enable_critic /\ runs[r].final_results # EmptyFn

\* orchestrator.py:192: the review is skipped
RunReviewSkip(r) ==
    /\ runs[r].pc = "review"
    /\ ~RunReviewRuns(r)
    /\ runs' = [runs EXCEPT ![r].pc = "synth"]
    /\ UNCHANGED otherThanRun

\* orchestrator.py:192-193: up to the yield of "Critic reviewing results..."
RunReviewYield(r) ==
    /\ runs[r].pc = "review"
    /\ RunReviewRuns(r)
    /\ runs' = [runs EXCEPT
          ![r].updates = Append(@, SwarmUpdate("status", "critic_reviewing", "none", FALSE)),
          ![r].pc = "reviewing"]
    /\ UNCHANGED otherThanRun

\* orchestrator.py:194-199: the critic is acquired and registered, and the
\* call waits for CriticAgent.review with its critic working
RunReviewCall(r) ==
    /\ runs[r].pc = "reviewing"
    /\ agents' = Acquire(agents, "critic")
    /\ bus_agents' = bus_agents \cup {AcquireId(agents, "critic")}
    /\ runs' = [runs EXCEPT ![r].held = AcquireId(agents, "critic"),
                            ![r].pc = "critic"]
    /\ UNCHANGED otherThanRuns

\* orchestrator.py:199-205: ok is whether the critic's completion call
\* returns; the call then releases the critic it acquired
RunReview(r, ok) ==
    /\ runs[r].pc = "critic"
    /\ IF ok
       THEN /\ agents' = Release(agents, runs[r].held)
            /\ runs' = [runs EXCEPT
                  ![r].held = 0,
                  ![r].updates = Append(@, SwarmUpdate("status", "critic_says", "none", FALSE)),
                  ![r].pc = "synth"]
       ELSE /\ agents' = agents
            /\ runs' = [runs EXCEPT ![r].pc = "raised", ![r].exc = "LLMError"]
    /\ UNCHANGED <<bus_agents, otherThanRuns>>

\* orchestrator.py:208: up to the yield of "Synthesizing final answer..."
RunSynthesizeYield(r) ==
    /\ runs[r].pc = "synth"
    /\ runs' = [runs EXCEPT
          ![r].updates = Append(@, SwarmUpdate("status", "synthesizing", "none", FALSE)),
          ![r].pc = "synthesizing"]
    /\ UNCHANGED otherThanRun

\* orchestrator.py:209-210: ok is whether synthesize_results returns
RunSynthesize(r, ok) ==
    /\ runs[r].pc = "synthesizing"
    /\ runs' = IF ok
               THEN [runs EXCEPT
                       ![r].updates = Append(@, SwarmUpdate("result", "final", "none", TRUE)),
                       ![r].pc = "done"]
               ELSE [runs EXCEPT ![r].pc = "raised", ![r].exc = "LLMError"]
    /\ UNCHANGED otherThanRun

InitWorkers == Init /\ max_agents = 1 /\ enable_critic

NextWorkers ==
    \E r \in Runs :
        \/ RunEvaluateYield(r)
        \/ \E resp \in EvalResponses : RunEvaluate(r, resp)
        \/ RunDirectYield(r)
        \/ \E ok \in BOOLEAN : RunDirect(r, ok)
        \/ RunDecomposeYield(r)
        \/ RunDecomposeCall(r)
        \/ \E resp \in PlanResponses, plan \in RunPlans(r) : RunDecompose(r, resp, plan)
        \/ RunWaveDone(r)
        \/ RunWaveDeadlock(r)
        \/ RunDeadlockFail(r)
        \/ RunWaveLaunch(r)
        \/ RunGather(r)
        \/ \E t \in TaskIds \cup {FallbackId} : RunStartTask(r, t)
        \/ \E t \in TaskIds \cup {FallbackId}, o \in RunOutcomes : RunFinishTask(r, t, o)
        \/ RunProcessResult(r)
        \/ RunReviewSkip(r)
        \/ RunReviewYield(r)
        \/ RunReviewCall(r)
        \/ \E ok \in BOOLEAN : RunReview(r, ok)
        \/ RunSynthesizeYield(r)
        \/ \E ok \in BOOLEAN : RunSynthesize(r, ok)

SpecWorkers == InitWorkers /\ [][NextWorkers]_vars

(***************************************************************************)
(* The EventBus on its own: coroutines subscribe and publish, one caller   *)
(* starts and stops the bus, and the task of _process runs between them    *)
(***************************************************************************)
otherThanEvents == <<dagVars, agents, semaphore, max_agents, enable_critic,
                     bus_agents, genVars, ops, busVars, consVars, sessions,
                     receiving, runs>>

\* subscribe(event_type, handler), and the decorator on(event_type)
EvSubscribe(t, h) ==
    /\ Subscriptions(handlers, EventTypes) < MaxHandlers
    /\ handlers' = [handlers EXCEPT ![t] = Append(@, h)]
    /\ UNCHANGED <<queue, running, bus_task, caller, delivered, published,
                   last, otherThanEvents>>

\* publish(event), publish_nowait(event): the queue is unbounded
EvPublish(t) ==
    /\ published < MaxEvents
    /\ published' = published + 1
    /\ queue' = Append(queue, [type |-> t, n |-> published + 1])
    /\ UNCHANGED <<handlers, running, bus_task, caller, delivered, last,
                   otherThanEvents>>

\* start(): creates the task of _process unless there is one; the coroutine
\* has not run when start() returns
EvStart ==
    /\ caller = "idle"
    /\ bus_task' = IF bus_task.at # "none" THEN bus_task
                   ELSE [at |-> "created", cancel |-> FALSE]
    /\ last' = [op |-> "start"]
    /\ UNCHANGED <<handlers, queue, running, caller, delivered, published,
                   otherThanEvents>>

\* stop(), up to "await self._task": clears _running and cancels the task
EvStop ==
    /\ caller = "idle"
    /\ running' = FALSE
    /\ IF bus_task.at = "none"
       THEN /\ last' = [op |-> "stop", before |-> published, task |-> FALSE]
            /\ UNCHANGED <<bus_task, caller>>
       ELSE /\ bus_task' = [bus_task EXCEPT !.cancel = TRUE]
            /\ caller' = "stopping"
            /\ last' = [op |-> "stopping", before |-> published]
    /\ UNCHANGED <<handlers, queue, delivered, published, otherThanEvents>>

\* stop(), after "await self._task": the task has ended
EvStopReturn ==
    /\ caller = "stopping"
    /\ bus_task.at = "done"
    /\ bus_task' = NoTask
    /\ caller' = "idle"
    /\ last' = [op |-> "stop", before |-> last.before, task |-> TRUE]
    /\ UNCHANGED <<handlers, queue, running, delivered, published,
                   otherThanEvents>>

\* _process: the top of "while self._running", and the wait for an event
\* when the bus is running
AtWhile == [at |-> IF running THEN "waiting" ELSE "done", cancel |-> FALSE]

\* _process: the list the "for handler in handlers" loop walks: for an event
\* of type Event it is the list held in _handlers, which a subscribe during
\* the walk extends; for a derived type it is the concatenation made when
\* the walk began
Walked == IF bus_task.event.type = "Event" THEN handlers["Event"]
          ELSE bus_task.list

\* _process: the coroutine runs for the first time, up to the await of
\* wait_for(self._queue.get(), timeout=0.5)
ProcStart ==
    /\ bus_task.at = "created"
    /\ ~bus_task.cancel
    /\ running' = TRUE
    /\ bus_task' = [at |-> "waiting", cancel |-> FALSE]
    /\ UNCHANGED <<handlers, queue, caller, delivered, published, last,
                   otherThanEvents>>

\* _process: the get() that wait_for waits for takes the event; _process
\* itself has not been resumed. In Python 3.11 and earlier the get() runs in
\* a task of its own, also after stop() has cancelled the task of _process;
\* in later versions it takes the event in the step that goes on to the
\* handlers, and a cancelled task takes no event (ProcCancelled)
ProcGet ==
    /\ bus_task.at = "waiting"
    /\ queue # <<>>
    /\ queue' = Tail(queue)
    /\ bus_task' = [at |-> "fetched", cancel |-> bus_task.cancel,
                    event |-> Head(queue)]
    /\ UNCHANGED <<handlers, running, caller, delivered, published, last,
                   otherThanEvents>>

\* _process: a walk that has called no handler, or whose last handler has
\* finished, goes on: the next handler is called and runs up to its first
\* await or its end, or the loop is back at its top
Continue(event, list, i, live) ==
    IF i <= Len(live)
    THEN [at |-> "handling", cancel |-> FALSE,
          event |-> event, list |-> list, i |-> i]
    ELSE AtWhile

\* _process, lines 53-66: wait_for returns the event (a cancellation that
\* arrived once the event was taken is swallowed by wait_for), the handler
\* lists are read and the first handler is called
ProcDispatch ==
    /\ bus_task.at = "fetched"
    /\ LET event == bus_task.event
           list == HandlersFor(handlers, event.type)
       IN /\ bus_task' = Continue(event, list, 1, list)
          /\ delivered' = IF list = <<>> THEN delivered
                          ELSE Append(delivered, <<event.n, list[1]>>)
    /\ UNCHANGED <<handlers, queue, running, caller, published, last,
                   otherThanEvents>>

\* _process, lines 64-68: "await handler(event)" ends. What the handler
\* raised is caught and logged, or it leaves _process and ends the task;
\* after a caught one the next handler of the list is called
ProcReturn ==
    /\ bus_task.at = "handling"
    /\ ~bus_task.cancel
    /\ LET h == Walked[bus_task.i]
           i == bus_task.i + 1
       IN IF ~Caught(h)
          THEN /\ bus_task' = [at |-> "done", cancel |-> FALSE]
               /\ delivered' = delivered
          ELSE /\ bus_task' = Continue(bus_task.event, bus_task.list, i, Walked)
               /\ delivered' = IF i <= Len(Walked)
                               THEN Append(delivered, <<bus_task.event.n, Walked[i]>>)
                               ELSE delivered
    /\ UNCHANGED <<handlers, queue, running, caller, published, last,
                   otherThanEvents>>

\* _process: CancelledError is raised at the await the task is suspended at:
\* in the coroutine that never ran, at wait_for, or inside the handler that
\* is awaited, which it leaves; no handler of _process catches it
ProcCancelled ==
    /\ bus_task.at \in {"created", "waiting", "handling"}
    /\ bus_task.cancel
    /\ bus_task' = [at |-> "done", cancel |-> FALSE]
    /\ UNCHANGED <<handlers, queue, running, caller, delivered, published,
                   last, otherThanEvents>>

NextEvents ==
    \/ \E t \in EventTypes, h \in Handlers : EvSubscribe(t, h)
    \/ \E t \in EventTypes : EvPublish(t)
    \/ EvStart
    \/ EvStop
    \/ EvStopReturn
    \/ ProcStart
    \/ ProcGet
    \/ ProcDispatch
    \/ ProcReturn
    \/ ProcCancelled

InitEvents == Init /\ max_agents = 1 /\ enable_critic

SpecEvents == InitEvents /\ [][NextEvents]_vars

(***************************************************************************)
(* WorkingMemory (memory/working.py): clients add messages to sessions and *)
(* clear sessions                                                          *)
(***************************************************************************)
SessionIds == {"s1", "s2"}
MessageRoles == {"system", "user", "assistant"}
\* WorkingMemory(max_messages)
MaxMessages == 2

\* the Python slice s[i:], i counted from 0, a negative i from the end
PySliceFrom(s, i) ==
    LET start == IF i < 0
                 THEN (IF Len(s) + i < 0 THEN 0 ELSE Len(s) + i)
                 ELSE (IF i > Len(s) THEN Len(s) ELSE i)
    IN SubSeq(s, start + 1, Len(s))

\* add_message: the list of the session after the append and the trim
AddMessage(ms, m) ==
    LET messages == Append(ms, m)
        system_msgs == SelectSeq(messages, LAMBDA x : x.role = "system")
        non_system == SelectSeq(messages, LAMBDA x : x.role # "system")
    IN IF Len(messages) > MaxMessages
       THEN system_msgs
            \o PySliceFrom(non_system, -(MaxMessages - Len(system_msgs)))
       ELSE messages

\* get_messages(session_id)
GetMessages(ss, sid) == IF sid \in DOMAIN ss THEN ss[sid] ELSE <<>>

otherThanMemory == <<dagVars, agents, semaphore, max_agents, enable_critic,
                     bus_agents, genVars, busVars, consVars, evVars, receiving,
                     runs, last>>

\* add_message(session_id, Message(role, content)): the content is the
\* number of the call
MemAdd(sid, role) ==
    /\ ops < MaxOps
    /\ ops' = ops + 1
    /\ sessions' = [x \in DOMAIN sessions \cup {sid} |->
                       IF x = sid
                       THEN AddMessage(GetMessages(sessions, sid),
                                       [role |-> role, n |-> ops + 1])
                       ELSE sessions[x]]
    /\ UNCHANGED otherThanMemory

\* clear_session(session_id)
MemClear(sid) ==
    /\ sessions' = [x \in DOMAIN sessions \ {sid} |-> sessions[x]]
    /\ UNCHANGED <<ops, otherThanMemory>>

NextMemory ==
    \/ \E sid \in SessionIds, role \in MessageRoles : MemAdd(sid, role)
    \/ \E sid \in SessionIds : MemClear(sid)

InitMemory == Init /\ max_agents = 1 /\ enable_critic

SpecMemory == InitMemory /\ [][NextMemory]_vars

(***************************************************************************)
(* The MessageBus on its own: clients of orchestrator.message_bus register *)
(* agents, subscribe, send, broadcast and publish in any order; the agents *)
(* that read their inbox are the subject of the next section               *)
(***************************************************************************)
otherThanBus == <<dagVars, agents, semaphore, max_agents, enable_critic,
                  genVars, ops, consVars, coreVars>>

BusRegister(id) ==
    /\ bus_agents' = RegisterAgent(bus_agents, id)
    /\ last' = [op |-> "register", id |-> id]
    /\ UNCHANGED <<busVars, otherThanBus>>

BusUnregister(id) ==
    /\ bus_agents' = UnregisterAgent(bus_agents, id)
    /\ topics' = UnregisterTopics(topics, id)
    /\ last' = [op |-> "unregister", id |-> id]
    /\ UNCHANGED <<inbox, dead_letters, message_count, stamp, otherThanBus>>

BusSubscribe(id, topic) ==
    /\ topics' = SubscribeTopic(topics, id, topic)
    /\ last' = [op |-> "subscribe", id |-> id, topic |-> topic]
    /\ UNCHANGED <<bus_agents, inbox, dead_letters, message_count, stamp,
                   otherThanBus>>

BusUnsubscribe(id, topic) ==
    /\ topics' = UnsubscribeTopic(topics, id, topic)
    /\ last' = [op |-> "unsubscribe", id |-> id, topic |-> topic]
    /\ UNCHANGED <<bus_agents, inbox, dead_letters, message_count, stamp,
                   otherThanBus>>

\* await bus.send(AgentMessage(from, to, content)), content being fresh
Send(from, to) ==
    /\ LET msg == AgentMessage(from, to, stamp + 1, "generic") IN
         /\ message_count' = SendCount(message_count)
         /\ inbox' = SendInbox(bus_agents, inbox, msg)
         /\ dead_letters' = SendDeadLetters(bus_agents, dead_letters, msg)
         /\ last' = [op |-> "send", msg |-> msg,
                     ret |-> SendReturn(bus_agents, msg)]
    /\ stamp' = stamp + 1
    /\ UNCHANGED <<bus_agents, topics, otherThanBus>>

\* await bus.broadcast(from, content)
Broadcast(from) ==
    /\ inbox' = Deliver(inbox, BroadcastTargets(bus_agents, from), from,
                        stamp + 1, "broadcast")
    /\ last' = [op |-> "broadcast", from |-> from, content |-> stamp + 1,
                ret |-> Cardinality(BroadcastTargets(bus_agents, from))]
    /\ stamp' = stamp + 1
    /\ UNCHANGED <<bus_agents, topics, dead_letters, message_count, otherThanBus>>

\* await bus.publish_to_topic(from, topic, content)
PublishToTopic(from, topic) ==
    /\ inbox' = Deliver(inbox, PublishTargets(bus_agents, topics, from, topic),
                        from, stamp + 1, "topic")
    /\ last' = [op |-> "publish", from |-> from, topic |-> topic,
                content |-> stamp + 1,
                ret |-> Cardinality(PublishTargets(bus_agents, topics, from, topic))]
    /\ stamp' = stamp + 1
    /\ UNCHANGED <<bus_agents, topics, dead_letters, message_count, otherThanBus>>

BusSend(from, to) == stamp < MaxMsgs /\ Send(from, to)
BusBroadcast(from) == stamp < MaxMsgs /\ Broadcast(from)
BusPublish(from, topic) == stamp < MaxMsgs /\ PublishToTopic(from, topic)

\* the frame of the steps of receive_message
otherThanReceive == <<dagVars, agents, semaphore, max_agents, enable_critic,
                      genVars, ops, consVars, evVars, sessions, runs,
                      bus_agents, topics, dead_letters, message_count, stamp>>

\* agent.receive_message(timeout) is called and waits in
\* asyncio.wait_for(self._inbox.get(), timeout)
BusReceiveCall(id) ==
    /\ InProgress(receiving, BusAgentIds) < MaxWaiting
    /\ receiving' = [receiving EXCEPT ![id].waiting = @ + 1]
    /\ last' = [op |-> "receive_call", id |-> id]
    /\ UNCHANGED <<inbox, otherThanReceive>>

\* self._inbox.get() of a waiting call takes the head of the queue; the
\* call has not returned yet
BusReceiveGet(id) ==
    /\ receiving[id].waiting > 0
    /\ inbox[id] # <<>>
    /\ inbox' = [inbox EXCEPT ![id] = Tail(@)]
    /\ receiving' = [receiving EXCEPT ![id].waiting = @ - 1,
                                      ![id].held = Append(@, Head(inbox[id]))]
    /\ last' = [op |-> "receive_get", id |-> id]
    /\ UNCHANGED otherThanReceive

\* receive_message returns the message its get() took
BusReceive(id) ==
    /\ receiving[id].held # <<>>
    /\ receiving' = [receiving EXCEPT ![id].held = Tail(@)]
    /\ last' = [op |-> "receive", id |-> id, ret |-> Head(receiving[id].held)]
    /\ UNCHANGED <<inbox, otherThanReceive>>

\* the timeout ends a call whose get() has taken nothing: receive_message
\* returns None and leaves the queue as it is, also when a message has
\* arrived in the meantime
BusReceiveTimeout(id) ==
    /\ receiving[id].waiting > 0
    /\ receiving' = [receiving EXCEPT ![id].waiting = @ - 1]
    /\ last' = [op |-> "receive", id |-> id, ret |-> NoMessage]
    /\ UNCHANGED <<inbox, otherThanReceive>>

InitBus == Init /\ max_agents = 1 /\ enable_critic

NextBus ==
    \/ \E id \in BusAgentIds : BusRegister(id)
    \/ \E id \in BusAgentIds : BusUnregister(id)
    \/ \E id \in BusAgentIds, topic \in Topics : BusSubscribe(id, topic)
    \/ \E id \in BusAgentIds, topic \in Topics : BusUnsubscribe(id, topic)
    \/ \E from \in Senders, to \in BusAgentIds : BusSend(from, to)
    \/ \E from \in Senders : BusBroadcast(from)
    \/ \E from \in Senders, topic \in Topics : BusPublish(from, topic)

SpecBus == InitBus /\ [][NextBus]_vars

(***************************************************************************)
(* The MessageBus with an agent that reads its inbox: agent 3 is           *)
(* registered and subscribed, it is sent messages by agent 1 and by a      *)
(* sender that is not registered, and it calls receive_message             *)
(***************************************************************************)
MailReaders == {3}

MailSend(from, to) == stamp < MaxMail /\ Send(from, to)
MailBroadcast(from) == stamp < MaxMail /\ Broadcast(from)
MailPublish(from, topic) == stamp < MaxMail /\ PublishToTopic(from, topic)

NextMail ==
    \/ \E id \in MailReaders : BusRegister(id)
    \/ \E id \in MailReaders, topic \in Topics : BusSubscribe(id, topic)
    \/ \E from \in Senders, to \in MailReaders : MailSend(from, to)
    \/ \E from \in Senders : MailBroadcast(from)
    \/ \E from \in Senders, topic \in Topics : MailPublish(from, topic)
    \/ \E id \in MailReaders : BusReceiveCall(id)
    \/ \E id \in MailReaders : BusReceiveGet(id)
    \/ \E id \in MailReaders : BusReceive(id)
    \/ \E id \in MailReaders : BusReceiveTimeout(id)

SpecMail == InitBus /\ [][NextMail]_vars

(***************************************************************************)
(* The ConsensusEngine on its own: ConsensusEngine(strategy), and clients  *)
(* that create proposals, vote and resolve in any order                    *)
(***************************************************************************)
otherThanConsensus == <<dagVars, runVars, busVars, strategy, coreVars>>

\* engine.create_proposal(id, ...)
CreateProposalCall(id) ==
    /\ proposals' = CreateProposal(proposals, id)
    /\ last' = [op |-> "create_proposal", id |-> id]
    /\ UNCHANGED otherThanConsensus

\* engine.cast_vote(id, agent_id, vote, confidence=confidence)
CastVoteCall(id, agent_id, vote, confidence) ==
    /\ proposals' = CastVote(proposals, id, agent_id, vote, confidence)
    /\ last' = [op |-> "cast_vote", id |-> id, agent_id |-> agent_id,
                vote |-> vote,
                ret |-> CastVoteReturn(proposals, id, agent_id, vote, confidence)]
    /\ UNCHANGED otherThanConsensus

\* engine.resolve(id, min_voters) on an interpreter whose sum() is build;
\* last keeps the build when the strategy is the one that sums
ResolveCall(id, min_voters, build) ==
    /\ proposals' = Resolve(proposals, strategy, id, min_voters, build)
    /\ last' = [op |-> "resolve", id |-> id, min_voters |-> min_voters,
                sum |-> IF strategy = "weighted" THEN build ELSE "none",
                ret |-> ResolveReturn(proposals, strategy, id, min_voters, build)]
    /\ UNCHANGED otherThanConsensus

ConsCreateProposal(id) ==
    ops < MaxVoteOps /\ ops' = ops + 1 /\ CreateProposalCall(id)
ConsCastVote(id, agent_id, vote, confidence) ==
    ops < MaxVoteOps /\ ops' = ops + 1 /\ CastVoteCall(id, agent_id, vote, confidence)
ConsResolve(id, min_voters, build) ==
    ops < MaxVoteOps /\ ops' = ops + 1 /\ ResolveCall(id, min_voters, build)

InitConsensus ==
    InitOrchestrator /\ max_agents = 1 /\ enable_critic /\ strategy \in Strategies

NextConsensus ==
    \/ \E id \in ProposalIds : ConsCreateProposal(id)
    \/ \E id \in ProposalIds, a \in Voters, v \in VoteTypes :
          \E c \in ConfidenceChoices(a) : ConsCastVote(id, a, v, c)
    \/ \E id \in ProposalIds, m \in MinVoters, b \in SumBuilds : ConsResolve(id, m, b)

SpecConsensus == InitConsensus /\ [][NextConsensus]_vars

(***************************************************************************)
(* The weighted strategy on its own: ConsensusEngine(WEIGHTED), one        *)
(* proposal, four voters that vote once each, and resolve on either        *)
(* interpreter                                                             *)
(***************************************************************************)
WeighCreateProposal == ops' = ops /\ CreateProposalCall("p1")
WeighCastVote(agent_id, vote, confidence) ==
    ops' = ops /\ CastVoteCall("p1", agent_id, vote, confidence)
\* engine.resolve("p1"), with the default min_voters
WeighResolve(build) == ops' = ops /\ ResolveCall("p1", 1, build)

InitWeighted ==
    InitOrchestrator /\ max_agents = 1 /\ enable_critic /\ strategy = "weighted"

NextWeighted ==
    \/ WeighCreateProposal
    \/ \E a \in WeightedVoters, v \in VoteTypes :
          \E c \in WeightedConfidences(a) : WeighCastVote(a, v, c)
    \/ \E b \in SumBuilds : WeighResolve(b)

SpecWeighted == InitWeighted /\ [][NextWeighted]_vars

(***************************************************************************)
(* Vocabulary of the properties                                            *)
(***************************************************************************)
ReadySet(ts, ord) ==
    {GetReadyTasks(ts, ord)[i] : i \in 1..Len(GetReadyTasks(ts, ord))}

\* the tasks _execute_task has been entered for
Started(ts) == {t \in DOMAIN ts : ts[t].assigned_to # 0}

RECURSIVE Close(_, _, _)
Close(ts, S, n) ==
    IF n = 0 THEN S
    ELSE Close(ts, S \cup UNION {ts[d].depends_on : d \in S \cap DOMAIN ts}, n - 1)

\* the ids t depends on, directly or transitively
Reach(ts, t) == Close(ts, ts[t].depends_on, Cardinality(DOMAIN ts))

\* t depends, directly or transitively, on an id that is absent or on a cycle
Unsatisfiable(ts, t) ==
    \E d \in Reach(ts, t) : d \notin DOMAIN ts \/ d \in Reach(ts, d)

\* ... or on a task that ended failed
Blocked(ts, t) ==
    \/ Unsatisfiable(ts, t)
    \/ \E d \in Reach(ts, t) \cap DOMAIN ts : ts[d].status = "failed"

Positions(P(_)) == {i \in 1..Len(updates) : P(updates[i])}

ErrorUpdates == Positions(LAMBDA u : u.update_type = "error")
ErrorUpdatesOf(t) == Positions(LAMBDA u : u.update_type = "error" /\ u.task_id = t)
FinalUpdates == Positions(LAMBDA u : u.is_final)

\* the positions of execute_goal after its wave loop
AfterLoop == {"review", "reviewing", "critic", "synth", "synthesizing", "done"}

\* the result loop has dealt with the coroutine of t
Processed(t) ==
    \/ pc # "gather"
    \/ \E i \in 1..idx : ready[i] = t

RunningAgents == {co[t].agent : t \in {u \in DOMAIN co : co[u].st = "running"}}

NoTaskRaised ==
    /\ \A t \in DOMAIN tasks : tasks[t].error \notin Errors
    /\ \A t \in DOMAIN co : co[t].st # "raised"

(***************************************************************************)
(* Properties                                                              *)
(***************************************************************************)
\* C1: a step that starts a task (moves it to in_progress and assigns it a
\* working agent) is taken only in a state where every id of its depends_on is
\* a task of the graph in state completed, and those tasks stay completed.
C1_StartOnlyAfterDeps ==
    [][\A t \in DOMAIN tasks' :
          (t \in Started(tasks') \ Started(tasks)) =>
              /\ tasks'[t].status = "in_progress"
              /\ agents'[tasks'[t].assigned_to].state = "working"
              /\ \A d \in tasks[t].depends_on :
                    /\ d \in DOMAIN tasks
                    /\ tasks[d].status = "completed"
                    /\ tasks'[d].status = "completed"]_vars

C1_Witness ==
    \E t \in DOMAIN tasks :
        /\ tasks[t].status = "in_progress"
        /\ tasks[t].depends_on = {"a1", "b1"}

\* C2: the number of agents in state working never exceeds max_agents.
C2_WorkingWithinMaxAgents == Cardinality(Working(agents)) <= max_agents

\* C3: get_ready_tasks() returns each task at most once, only pending tasks
\* none of whose dependencies is absent or not completed, and every such task;
\* with the chains a1->a2, b1->b2 all pending it returns {a1, b1}, and a2 (b2)
\* is returned only once a1 (b1) is completed.
C3_ReadyExactly ==
    LET r == GetReadyTasks(tasks, order)
        R == ReadySet(tasks, order)
        chains == /\ DOMAIN tasks = TaskIds
                  /\ tasks["a1"].depends_on = {} /\ tasks["a2"].depends_on = {"a1"}
                  /\ tasks["b1"].depends_on = {} /\ tasks["b2"].depends_on = {"b1"}
    IN
    /\ Cardinality(R) = Len(r)
    /\ R \subseteq DOMAIN tasks
    /\ \A t \in R :
          /\ tasks[t].status = "pending"
          /\ ~ \E d \in tasks[t].depends_on :
                 \/ d \notin DOMAIN tasks
                 \/ tasks[d].status \in {"pending", "in_progress", "failed", "cancelled"}
    /\ \A t \in DOMAIN tasks \ R :
          \/ tasks[t].status # "pending"
          \/ \E d \in tasks[t].depends_on :
                d \notin DOMAIN tasks \/ tasks[d].status # "completed"
    /\ chains =>
          /\ (\A t \in TaskIds : tasks[t].status = "pending") => R = {"a1", "b1"}
          /\ "a2" \in R => tasks["a1"].status = "completed"
          /\ "b2" \in R => tasks["b1"].status = "completed"

C3_Witness ==
    /\ DOMAIN tasks = TaskIds
    /\ tasks["a2"].depends_on = {"a1"} /\ tasks["b2"].depends_on = {"b1"}
    /\ tasks["a1"].status = "completed" /\ tasks["b1"].status = "pending"
    /\ ReadySet(tasks, order) = {"a2", "b1"}

\* C4: once the run has ended without the backend having failed, exactly one
\* update has is_final set and it is the last one.
C4_ExactlyOneFinalLast ==
    (pc \in {"done", "raised"} /\ exc # "LLMError") =>
        /\ Cardinality(FinalUpdates) = 1
        /\ Last(updates).is_final

\* C5: a run that backend exhaustion ended has an error update as its last
\* update.
C5_ExhaustionEndsWithError ==
    (pc = "raised" /\ exc = "LLMError") =>
        /\ updates # <<>>
        /\ Last(updates).update_type = "error"

C7_OutcomesIndependent ==
    /\ \A t \in DOMAIN co :
          (co[t].st = "returned" /\ Processed(t)) =>
              /\ tasks[t].status = "completed"
              /\ tasks[t].result = co[t].val
              /\ t \in DOMAIN final_results
              /\ final_results[t] = co[t].val
    /\ DOMAIN final_results = {t \in DOMAIN tasks : tasks[t].status = "completed"}
    /\ \A t \in DOMAIN final_results : final_results[t] = tasks[t].result

C7_Witness ==
    /\ pc = "synth"
    /\ \E t1, t2 \in DOMAIN co :
          /\ co[t1].st = "raised"
          /\ co[t2].st = "returned"
          /\ tasks[t1].status = "failed"
          /\ tasks[t2].status = "completed"
          /\ final_results[t2] = co[t2].val

\* C8: a task with a dependency that is absent, on a cycle or failed (directly
\* or transitively) is never started; when nothing is ready and the graph is
\* not complete the run yields the deadlock update, and the step that resumes
\* it fails exactly the pending tasks with the deadlock error and leaves the
\* loop; the tasks are left alone from then on, and the run with a deadlock
\* goes on to synthesis: through the review, when there is one, to the
\* synthesis call, whatever the critic's call does.
C8_BlockedNeverStartsDeadlockFails ==
    [][/\ \A t \in DOMAIN tasks' :
             \/ Blocked(tasks', t) \/ tasks'[t].error = DeadlockError
             => t \notin Started(tasks')
       /\ (pc = "wave" /\ ~IsComplete(tasks) /\ GetReadyTasks(tasks, order) = <<>>) =>
             /\ tasks' = tasks
             /\ Last(updates').update_type = "error"
             /\ pc' = "deadlock"
             /\ exc' = "none"
       /\ pc = "deadlock" =>
             /\ \A t \in DOMAIN tasks :
                   IF tasks[t].status = "pending"
                   THEN tasks'[t].status = "failed" /\ tasks'[t].error = DeadlockError
                   ELSE tasks'[t] = tasks[t]
             /\ pc' = "review"
             /\ exc' = "none"
       /\ pc = "review" => tasks' = tasks /\ pc' \in {"reviewing", "synth"}
       /\ pc = "reviewing" => tasks' = tasks /\ pc' = "critic"
       /\ pc = "critic" =>
             /\ tasks' = tasks
             /\ (\E t \in DOMAIN tasks : tasks[t].error = DeadlockError)
                   => pc' = "synth"
       /\ pc = "synth" => tasks' = tasks /\ pc' = "synthesizing"
       /\ pc = "synthesizing" =>
             /\ tasks' = tasks
             /\ \/ pc' = "done" /\ Last(updates').update_type = "result"
                \/ pc' = "raised" /\ exc' = "LLMError"]_vars

\* C9: once the wave loop is left in a run where no task execution raised and
\* some task has an unsatisfiable dependency, the stream holds exactly one
\* error update, and in the finished run the final result update follows it.
C9_OneDeadlockError ==
    (/\ pc \in AfterLoop \cup {"raised"}
     /\ NoTaskRaised
     /\ \E t \in DOMAIN tasks : Unsatisfiable(tasks, t)) =>
        /\ Cardinality(ErrorUpdates) = 1
        /\ pc = "done" =>
              /\ Last(updates).update_type = "result"
              /\ Last(updates).is_final
              /\ \A i \in ErrorUpdates : i < Len(updates)

C9_Witness ==
    /\ pc = "done"
    /\ NoTaskRaised
    /\ \E t \in DOMAIN tasks : Unsatisfiable(tasks, t)
    /\ \E t \in DOMAIN tasks : tasks[t].status = "completed"
    /\ Cardinality(ErrorUpdates) = 1

\* C10: outside a run that an exception ended, and apart from the planner
\* and the critic the run itself holds while it waits for their answer, the
\* agents in state working are exactly those assigned to the task executions
\* still in flight and all others are idle; so once a wave has settled no
\* agent is working.
C10_WorkersReleased ==
    pc # "raised" =>
        /\ pc \notin {"planning", "critic"} =>
              \A i \in 1..Len(agents) :
                 agents[i].state = IF i \in RunningAgents THEN "working" ELSE "idle"
        /\ pc \in {"planning", "critic"} =>
              /\ RunningAgents = {}
              /\ \A i \in Working(agents) :
                    agents[i].role = IF pc = "planning" THEN "planner" ELSE "critic"
              /\ Cardinality(Working(agents)) = 1
        /\ (pc \notin {"gather", "planning", "critic"} \/ (pc = "gather" /\ Settled))
              => Working(agents) = {}

C10_Witness ==
    /\ pc = "gather"
    /\ Settled
    /\ \E t1, t2 \in DOMAIN co :
          /\ co[t1].st = "raised"
          /\ co[t2].st = "returned"
          /\ co[t1].agent # co[t2].agent
    /\ Working(agents) = {}

\* the idle agents of a role
IdleOf(ags, role) ==
    {i \in 1..Len(ags) : ags[i].role = role /\ ags[i].state = "idle"}

\* C11: acquire(role) returns an agent of the pool that has the requested role
\* and is working after the call.  When the pool held an idle agent of the role
\* the agent returned is one of these and the pool keeps its size; otherwise it
\* is a new agent, at the next position of the pool.  In neither case was the
\* agent working before, no other agent changes, and the call takes no permit
\* of the semaphore: it returns however many agents are working.
C11_AcquireIdleOrSpawn ==
    [][last'.op = "acquire" =>
        LET id == last'.ret
            role == last'.role
        IN  /\ id \in 1..Len(agents')
            /\ agents'[id] = [role |-> role, state |-> "working"]
            /\ IdleOf(agents, role) # {} =>
                   /\ id \in IdleOf(agents, role)
                   /\ Len(agents') = Len(agents)
            /\ IdleOf(agents, role) = {} =>
                   /\ id = Len(agents) + 1
                   /\ Len(agents') = Len(agents) + 1
            /\ id \notin Working(agents)
            /\ \A i \in 1..Len(agents) : i # id => agents'[i] = agents[i]
            /\ semaphore' = semaphore]_vars

\* acquire has returned an idle agent it found, with more agents working than
\* max_agents
C11_Witness ==
    /\ last.op = "acquire"
    /\ last.ret < Len(agents)
    /\ Cardinality(Working(agents)) > max_agents

\* C12: the coordinator, the agent spawned at construction under id 1, is never
\* handed out by acquire to execute a task: it stays idle in the pool and no
\* task is assigned to it, whatever the preferred role of the task.
C12_CoordinatorNeverHandedOut ==
    /\ agents[1].role = "coordinator"
    /\ agents[1].state = "idle"
    /\ \A t \in DOMAIN tasks : tasks[t].assigned_to # 1

\* the inboxes after one message of the sender, with the content and type
\* given, has been put at the end of the inbox of every target
Delivered(ib, targets, from, content, msg_type) ==
    [a \in DOMAIN ib |->
        IF a \in targets
        THEN Append(ib[a], [from_agent |-> from, to_agent |-> a,
                            content |-> content, msg_type |-> msg_type])
        ELSE ib[a]]

\* C13: a send to a registered recipient returns True and appends the message
\* to the inbox of the recipient, and to nothing else; a send to a recipient
\* that is not registered returns False (it raises nothing), makes the list
\* of dead letters longer by exactly the message and changes no inbox.
C13_SendDeliversOrDeadLetters ==
    [][last'.op = "send" =>
        LET msg == last'.msg IN
        IF msg.to_agent \in bus_agents
        THEN /\ last'.ret = TRUE
             /\ inbox' = [inbox EXCEPT ![msg.to_agent] = Append(@, msg)]
             /\ dead_letters' = dead_letters
        ELSE /\ last'.ret = FALSE
             /\ Len(dead_letters') = Len(dead_letters) + 1
             /\ dead_letters' = Append(dead_letters, msg)
             /\ inbox' = inbox]_vars

\* a send to an agent that is not registered has returned False
C13_Witness ==
    /\ last.op = "send"
    /\ last.msg.to_agent \notin bus_agents
    /\ last.ret = FALSE
    /\ Len(dead_letters) = 1

\* C14: broadcast(sender) puts exactly one message at the end of the inbox of
\* every registered agent other than the sender, leaves every other inbox,
\* the sender's too, as it was, and returns the number of inboxes written:
\* N-1 when the sender is one of N registered agents.
C14_BroadcastAllButSender ==
    [][last'.op = "broadcast" =>
        LET from == last'.from
            others == {a \in bus_agents : a # from}
        IN  /\ inbox' = Delivered(inbox, others, from, last'.content, "broadcast")
            /\ inbox'[from] = inbox[from]
            /\ last'.ret = Cardinality(others)
            /\ from \in bus_agents => last'.ret = Cardinality(bus_agents) - 1]_vars

\* a registered sender has broadcast to two other agents
C14_Witness ==
    /\ last.op = "broadcast"
    /\ last.from \in bus_agents
    /\ Cardinality(bus_agents) = 3
    /\ last.ret = 2
    /\ \A a \in bus_agents \ {last.from} : Len(inbox[a]) = 1

\* C15, as the claim states it: publish_to_topic(sender, topic) puts one
\* message in the inbox of every subscriber of the topic other than the sender
\* and returns the number of these subscribers.
C15_PublishReachesEverySubscriber ==
    [][last'.op = "publish" =>
        LET from == last'.from
            subscribers == topics[last'.topic] \ {from}
        IN  /\ inbox' = Delivered(inbox, subscribers, from, last'.content, "topic")
            /\ last'.ret = Cardinality(subscribers)]_vars

\* C15, amended: publish_to_topic(sender, topic) puts one message in the inbox
\* of every subscriber of the topic that is registered and is not the sender,
\* in no other inbox, and returns the number of these subscribers; a
\* subscriber that is not registered is skipped and not counted.
C15_PublishReachesRegisteredSubscribers ==
    [][last'.op = "publish" =>
        LET from == last'.from
            subscribers == {a \in topics[last'.topic] : a # from /\ a \in bus_agents}
        IN  /\ inbox' = Delivered(inbox, subscribers, from, last'.content, "topic")
            /\ last'.ret = Cardinality(subscribers)]_vars

\* a publish has reached a registered subscriber of a topic that the sender
\* and an agent that is not registered subscribe to as well
C15_Witness ==
    /\ last.op = "publish"
    /\ last.ret = 1
    /\ last.from \in topics[last.topic]
    /\ \E a \in topics[last.topic] : a # last.from /\ a \notin bus_agents

\* C16: unregister_agent(id) leaves id out of the registry and out of the
\* subscribers of every topic; and no send, broadcast or publish_to_topic
\* changes the inbox of an agent that is not registered when it is called.
\* (subscribe_topic does not look at the registry: called for an id that is
\* not registered it adds the id to the topic, and still nothing is delivered.)
C16_UnregisteredGetsNothing ==
    [][/\ last'.op = "unregister" =>
            /\ last'.id \notin bus_agents'
            /\ \A t \in Topics : last'.id \notin topics'[t]
       /\ last'.op \in {"send", "broadcast", "publish"} =>
            \A a \in BusAgentIds \ bus_agents : inbox'[a] = inbox[a]]_vars

\* the coordinator, registered at construction, has been unregistered; it is
\* subscribed again, and a publish to the topic has left its inbox empty
C16_Witness ==
    /\ last.op = "publish"
    /\ 1 \notin bus_agents
    /\ last.from # 1
    /\ 1 \in topics[last.topic]
    /\ inbox[1] = <<>>

\* the messages an agent has been sent and no receive_message has returned:
\* those its calls in progress have taken, then those in its inbox
UnreturnedIn(rc, ib, a) == rc[a].held \o ib[a]
Unreturned(a) == UnreturnedIn(receiving, inbox, a)

\* C17: receive_message returns the messages of one sender in the order in
\* which they were sent: among the messages of an agent not yet returned
\* (in its inbox, or taken by a call that has not returned) a message of a
\* sender is never behind a message the same sender sent later, whatever
\* other senders send, broadcast and publish in between; a call that returns
\* a message returns the first of them, and a call that takes a message or
\* times out loses none. So no message is returned while an earlier message
\* of its sender waits.
C17_SenderOrderKept ==
    [][/\ \A a \in BusAgentIds : \A i, j \in 1..Len(inbox'[a]) :
            (i < j /\ inbox'[a][i].from_agent = inbox'[a][j].from_agent)
                => inbox'[a][i].content < inbox'[a][j].content
       /\ \A a \in BusAgentIds : \A i, j \in 1..Len(UnreturnedIn(receiving', inbox', a)) :
            (i < j /\ UnreturnedIn(receiving', inbox', a)[i].from_agent = UnreturnedIn(receiving', inbox', a)[j].from_agent)
                => UnreturnedIn(receiving', inbox', a)[i].content < UnreturnedIn(receiving', inbox', a)[j].content
       /\ last'.op = "receive_get" =>
            UnreturnedIn(receiving', inbox', last'.id) = Unreturned(last'.id)
       /\ (last'.op = "receive" /\ last'.ret # NoMessage) =>
            /\ Unreturned(last'.id) = <<last'.ret>> \o UnreturnedIn(receiving', inbox', last'.id)
            /\ \A i \in 1..Len(UnreturnedIn(receiving', inbox', last'.id)) :
                  UnreturnedIn(receiving', inbox', last'.id)[i].from_agent = last'.ret.from_agent
                      => last'.ret.content < UnreturnedIn(receiving', inbox', last'.id)[i].content
       /\ (last'.op = "receive" /\ last'.ret = NoMessage) =>
            UnreturnedIn(receiving', inbox', last'.id) = Unreturned(last'.id)]_vars

\* an agent has received the first of two messages of a sender, with the
\* message of another sender waiting between them
C17_Witness ==
    /\ last.op = "receive"
    /\ last.ret # NoMessage
    /\ Len(Unreturned(last.id)) = 2
    /\ Unreturned(last.id)[1].from_agent # last.ret.from_agent
    /\ Unreturned(last.id)[2].from_agent = last.ret.from_agent
    /\ last.ret.content < Unreturned(last.id)[2].content
    /\ receiving[last.id].held # <<>>

\* C18: every send makes message_count greater by exactly 1, whether it
\* delivers the message or dead-letters it, and no operation of the bus makes
\* message_count smaller.
C18_MessageCountGrows ==
    [][/\ message_count' >= message_count
       /\ last'.op = "send" => message_count' = message_count + 1]_vars

\* a send has been counted
C18_Witness ==
    /\ last.op = "send"
    /\ message_count = 1

\* the voters of a list of votes, one entry for each vote
VotersOf(votes) == [i \in 1..Len(votes) |-> votes[i].agent_id]

\* C19: a proposal never holds two votes of one voter; and a cast_vote by a
\* voter who has already voted on the proposal, not yet resolved, returns the
\* vote this voter cast first, as it was cast, and leaves the list of votes of
\* the proposal (and every other proposal) as it was.
C19_OneVotePerVoter ==
    [][/\ \A p \in DOMAIN proposals' :
            \A i, j \in 1..Len(proposals'[p].votes) :
                proposals'[p].votes[i].agent_id = proposals'[p].votes[j].agent_id
                    => i = j
       /\ (/\ last'.op = "cast_vote"
           /\ last'.id \in DOMAIN proposals
           /\ ~proposals[last'.id].resolved
           /\ \E i \in 1..Len(proposals[last'.id].votes) :
                  proposals[last'.id].votes[i].agent_id = last'.agent_id)
          => /\ \E i \in 1..Len(proposals[last'.id].votes) :
                  /\ proposals[last'.id].votes[i].agent_id = last'.agent_id
                  /\ last'.ret = proposals[last'.id].votes[i]
             /\ proposals' = proposals]_vars

\* a voter who approved has voted a second time, to reject: the call returned
\* the approval, and the proposal holds that one vote
C19_Witness ==
    /\ last.op = "cast_vote"
    /\ last.id \in DOMAIN proposals
    /\ last.vote = "reject"
    /\ last.ret.vote = "approve"
    /\ last.ret.agent_id = last.agent_id
    /\ Len(proposals[last.id].votes) = 1
    /\ proposals[last.id].votes[1] = last.ret

\* C20: once a proposal is resolved, the proposal kept under its id stays
\* resolved, with the same accepted flag and the same votes, whatever
\* create_proposal, cast_vote and resolve calls follow.
C20_ResolvedIsPermanent ==
    [][\A p \in DOMAIN proposals :
          proposals[p].resolved =>
              /\ p \in DOMAIN proposals'
              /\ proposals'[p].resolved
              /\ proposals'[p].accepted = proposals[p].accepted
              /\ proposals'[p].votes = proposals[p].votes]_vars

\* how many votes of a list are of one of the types
CountOf(votes, types) ==
    Cardinality({i \in 1..Len(votes) : votes[i].vote \in types})

\* C21: a resolve(id, min_voters) of a proposal that is not resolved and has
\* fewer than min_voters votes other than abstentions returns None, and leaves
\* the proposal, unresolved, with the votes it had (and every other proposal)
\* as it was: it can still be voted on and resolved.
C21_TooFewVotesDefers ==
    [][(/\ last'.op = "resolve"
        /\ last'.id \in DOMAIN proposals
        /\ ~proposals[last'.id].resolved
        /\ CountOf(proposals[last'.id].votes, {"approve", "reject"})
              < last'.min_voters)
       => /\ last'.ret = "none"
          /\ proposals' = proposals
          /\ ~proposals'[last'.id].resolved]_vars

\* a resolve that asked for two voters has been deferred on a proposal that
\* holds one approval and one abstention
C21_Witness ==
    /\ last.op = "resolve"
    /\ last.min_voters = 2
    /\ last.ret = "none"
    /\ last.id \in DOMAIN proposals
    /\ ~proposals[last.id].resolved
    /\ CountOf(proposals[last.id].votes, {"approve"}) = 1
    /\ CountOf(proposals[last.id].votes, {"abstain"}) = 1

\* C22: when a resolve(id, min_voters) finds votes on the proposal, all of
\* them abstentions and at least min_voters of them, it returns False and the
\* proposal is resolved and not accepted.
C22_AllAbstainsRejects ==
    (/\ last.op = "resolve"
     /\ last.id \in DOMAIN proposals
     /\ proposals[last.id].votes # <<>>
     /\ CountOf(proposals[last.id].votes, {"approve", "reject"}) = 0
     /\ CountOf(proposals[last.id].votes, {"abstain"}) >= last.min_voters)
    => /\ last.ret = "false"
       /\ proposals[last.id].resolved
       /\ ~proposals[last.id].accepted

\* the last call was a resolve, under the strategy strat, of a proposal with
\* at least min_voters votes that are no abstention; resolve leaves the votes
\* as they are, so the votes of the state are the ones it evaluated
ResolvedUnder(strat) ==
    /\ last.op = "resolve"
    /\ strategy = strat
    /\ last.id \in DOMAIN proposals
    /\ CountOf(proposals[last.id].votes, {"approve", "reject"}) >= last.min_voters
Approvals == CountOf(proposals[last.id].votes, {"approve"})
Rejections == CountOf(proposals[last.id].votes, {"reject"})
Abstentions == CountOf(proposals[last.id].votes, {"abstain"})
Outcome(accepted) == IF accepted THEN "true" ELSE "false"

\* C23: under the majority strategy a resolve that has its min_voters
\* non-abstain votes returns True exactly when twice the approvals exceed the
\* approvals plus the rejections, and False otherwise; abstentions play no
\* part and a tie is rejected.
C23_MajorityRule ==
    ResolvedUnder("majority")
    => last.ret = Outcome(2 * Approvals > Approvals + Rejections)

C23_Witness ==
    /\ ResolvedUnder("majority")
    /\ Approvals = 1 /\ Rejections = 1 /\ Abstentions = 1
    /\ last.min_voters = 2
    /\ last.ret = "false"

\* C24, as stated: under the supermajority strategy a resolve that has its
\* min_voters non-abstain votes returns True exactly when three times the
\* approvals are at least twice the approvals plus rejections.
C24_SupermajorityRule ==
    ResolvedUnder("supermajority")
    => last.ret = Outcome(3 * Approvals >= 2 * (Approvals + Rejections))

\* C24, amended: ... returns True exactly when there is a non-abstain vote
\* and three times the approvals are at least twice the approvals plus
\* rejections; with no non-abstain vote (min_voters = 0) it returns False.
C24_SupermajorityRuleOfCastVotes ==
    ResolvedUnder("supermajority")
    => last.ret = Outcome(/\ Approvals + Rejections > 0
                          /\ 3 * Approvals >= 2 * (Approvals + Rejections))

C24_Witness ==
    /\ ResolvedUnder("supermajority")
    /\ Approvals = 2 /\ Rejections = 1
    /\ last.ret = "true"

\* C25: under the unanimous strategy a resolve that has its min_voters
\* non-abstain votes returns True exactly when no vote rejects and at least
\* one approves; one rejection among the approvals rejects the proposal.
C25_UnanimousRule ==
    ResolvedUnder("unanimous")
    => last.ret = Outcome(Rejections = 0 /\ Approvals >= 1)

C25_Witness ==
    /\ ResolvedUnder("unanimous")
    /\ Approvals = 2 /\ Rejections = 1
    /\ last.ret = "false"

RECURSIVE ConfidenceSum(_, _, _)
\* the sum, as a real number, of the confidences of the votes of one type:
\* the floats the votes hold, added without rounding
ConfidenceSum(votes, type, n) ==
    IF n = 0 THEN [n |-> 0, e |-> 0]
    ELSE LET rest == ConfidenceSum(votes, type, n - 1)
             c == Double(votes[n].confidence)
         IN  IF votes[n].vote = type
             THEN [n |-> rest.n + c.n, e |-> rest.e + c.e]
             ELSE rest

RECURSIVE FloatSum(_, _, _)
\* the same sum in floating point: after each vote, in the order of the
\* votes, the sum is rounded to a double
FloatSum(votes, type, n) ==
    IF n = 0 THEN [n |-> 0, e |-> 0]
    ELSE LET rest == FloatSum(votes, type, n - 1)
             c == Double(votes[n].confidence)
         IN  IF votes[n].vote = type
             THEN RoundDouble(rest.n + c.n, rest.e + c.e)
             ELSE rest

IdsOf(list) == {list[i] : i \in 1..Len(list)}

\* the dependencies of u that are not completed tasks of the graph
Uncompleted(ts, u) ==
    {d \in ts[u].depends_on : d \notin DOMAIN ts \/ ts[d].status # "completed"}

\* C27: across every mark_completed(t, r) of a task t of the graph, the ready
\* tasks of the graph it leaves (the list it returns) include every task that
\* is pending and whose only dependency not completed before the call was t.
C27_CompletionUnblocks ==
    [][(last'.op = "mark_completed" /\ last'.id \in DOMAIN tasks)
       => /\ last'.ret = GetReadyTasks(tasks', order')
          /\ \A u \in DOMAIN tasks' :
                (/\ tasks'[u].status = "pending"
                 /\ Uncompleted(tasks, u) = {last'.id})
                => u \in IdsOf(last'.ret)]_vars

\* a2 waited for a1 alone and is ready once a1 is completed
C27_Witness ==
    /\ last.op = "mark_completed" /\ last.id = "a1"
    /\ "a2" \in DOMAIN tasks
    /\ tasks["a2"].depends_on = {"a1"}
    /\ tasks["a2"].status = "pending"
    /\ "a2" \in IdsOf(last.ret)

\* C28, as stated: get_results() has an entry for every completed task and
\* for no other task.
C28_ResultForEveryCompleted ==
    DOMAIN GetResults(tasks) = {t \in DOMAIN tasks : tasks[t].status = "completed"}

\* C28, amended: get_results() has an entry for every completed task that
\* was given a result other than None and for no other task, and the entry is
\* the result passed to mark_completed. Across every step: mark_completed(t, r)
\* of a task of the graph puts t -> r in the results when r is not None and
\* leaves t without an entry when it is; a task that is not completed
\* has no entry; a task that was and stays completed keeps what it had.
C28_ResultForEveryCompletedWithResult ==
    [][\A u \in DOMAIN tasks' :
         LET results == GetResults(tasks')
             marked == last'.op = "mark_completed" /\ last'.id = u
         IN  /\ (marked /\ last'.result # "none")
                    => u \in DOMAIN results /\ results[u] = last'.result
             /\ (marked /\ last'.result = "none") => u \notin DOMAIN results
             /\ tasks'[u].status # "completed" => u \notin DOMAIN results
             /\ (~marked /\ tasks'[u].status = "completed")
                    => /\ u \in DOMAIN tasks /\ tasks[u].status = "completed"
                       /\ u \in DOMAIN results <=> u \in DOMAIN GetResults(tasks)
                       /\ u \in DOMAIN results
                            => results[u] = GetResults(tasks)[u]]_vars

\* two tasks completed with their results, and both in get_results()
C28_Witness ==
    /\ last.op = "mark_completed"
    /\ \E t, u \in DOMAIN tasks :
          /\ t # u
          /\ tasks[t].status = "completed" /\ tasks[u].status = "completed"
          /\ GetResults(tasks) = (t :> "r1" @@ u :> "r2")

\* C29: add_task with an id that is in the graph leaves the graph as it is:
\* the task stored under the id is not replaced.
C29_AddExistingKeepsGraph ==
    [][(last'.op = "add_task" /\ last'.id \in DOMAIN tasks)
       => tasks' = tasks /\ order' = order]_vars

\* C30: when the answer of the decomposition call is not a list of task
\* definitions (no JSON, JSON of another shape, or task objects with fields
\* of the wrong type), the step that takes it leaves a graph of exactly one
\* task, without dependencies and with preferred role executor, has released
\* the planner, and goes on to the execution of the graph instead of raising.
C30_MalformedPlanFallsBack ==
    [][(/\ pc = "planning"
        /\ last'.op = "decompose"
        /\ last'.ret \in {"unparseable", "bad_shape", "invalid_task"})
       => /\ DOMAIN tasks' = {FallbackId}
          /\ tasks'[FallbackId].depends_on = {}
          /\ tasks'[FallbackId].preferred_role = "executor"
          /\ \A i \in 1..Len(agents') :
                agents'[i].role = "planner" => agents'[i].state = "idle"
          /\ pc' = "wave"]_vars

\* C38: the list mark_completed(id, result) returns holds newly unblocked
\* tasks only: each of them depends on id and was not ready before the call;
\* for an id that is not in the graph the list is empty and the graph is
\* left as it was.
C38_ReturnsNewlyUnblocked ==
    [][last'.op = "mark_completed"
       => IF last'.id \in DOMAIN tasks
          THEN \A u \in IdsOf(last'.ret) :
                 /\ u \notin ReadySet(tasks, order)
                 /\ last'.id \in tasks[u].depends_on
          ELSE last'.ret = <<>> /\ tasks' = tasks]_vars

\* the status changes one transition of the orchestrator makes
AllowedChange(a, b) ==
    \/ a = "pending" /\ b \in {"in_progress", "failed"}
    \/ a = "in_progress" /\ b \in {"completed", "failed"}

\* C34: in a run every task gets at most one mark_in_progress and at most
\* one terminal transition, and none once it is terminal. Across every step:
\* a task keeps its status or moves pending -> in_progress, in_progress ->
\* completed or failed, or pending -> failed; a completed or failed task is
\* left as it is; the coroutine that starts finds its task pending; the
\* result loop finds the task it marks in progress.
C34_TransitionsOncePerTask ==
    [][/\ \A t \in DOMAIN tasks :
            /\ t \in DOMAIN tasks'
            /\ tasks'[t].status = tasks[t].status
                  \/ AllowedChange(tasks[t].status, tasks'[t].status)
            /\ tasks[t].status \in {"completed", "failed"} => tasks'[t] = tasks[t]
       /\ \A t \in DOMAIN co \cap DOMAIN co' :
            (co[t].st = "new" /\ co'[t].st = "running")
            => tasks[t].status = "pending" /\ tasks'[t].status = "in_progress"
       /\ (pc = "gather" /\ idx' = idx + 1)
            => /\ tasks[ready[idx + 1]].status = "in_progress"
               /\ tasks'[ready[idx + 1]].status \in {"completed", "failed"}]_vars

\* a run that completed a task, failed one on its exception and failed one
\* in the deadlock branch
C34_Witness ==
    /\ pc = "done"
    /\ \E t, u, v \in DOMAIN tasks :
          /\ tasks[t].status = "completed"
          /\ tasks[u].status = "failed" /\ tasks[u].error \in Errors
          /\ tasks[v].status = "failed" /\ tasks[v].error = DeadlockError

\* C36: once the wave loop has been left, through its condition or through
\* the deadlock branch, every task of the graph is completed, failed or
\* cancelled: none is pending or in progress during review and synthesis.
C36_LoopExitsComplete ==
    pc \in AfterLoop
    => \A t \in DOMAIN tasks : tasks[t].status \in {"completed", "failed", "cancelled"}

\* the loop was left through the deadlock branch after a wave
C36_Witness ==
    /\ pc = "review"
    /\ \E t, u \in DOMAIN tasks :
          /\ tasks[t].status = "completed"
          /\ tasks[u].status = "failed" /\ tasks[u].error = DeadlockError
    /\ Last(updates).update_type = "error"

\* the critic's status updates are among the updates
Reviewed(ups) ==
    \E i \in 1..Len(ups) : ups[i].content = "critic_reviewing"

\* C39: in every run that leaves the wave loop the review step runs exactly
\* when the critic is enabled and a task produced a result; the call of the
\* critic ends with no critic working and hands over to the synthesis step,
\* and the synthesis call ends the run with the final result update.
C39_ReviewNeverGates ==
    [][/\ pc = "review"
          => /\ Reviewed(updates') <=> (enable_critic /\ final_results # EmptyFn)
             /\ pc' = IF Reviewed(updates') THEN "reviewing" ELSE "synth"
       /\ pc = "reviewing" => pc' = "critic"
       /\ pc = "critic"
          => /\ \A i \in 1..Len(agents') :
                   agents'[i].role = "critic" => agents'[i].state = "idle"
             /\ pc' = "synth"
       /\ pc = "synth" => pc' = "synthesizing"
       /\ pc = "synthesizing"
          => /\ pc' = "done"
             /\ Last(updates').update_type = "result"
             /\ Last(updates').is_final]_vars

\* the waves launched so far: one status update each
Waves == Cardinality(Positions(LAMBDA u : u.content = "wave"))

\* C37: with task executions that return or raise, the wave loop is left
\* whatever the graph: from every state inside the loop the run gets to the
\* review step, and there are never more waves than tasks.
C37_WaveLoopTerminates ==
    /\ [](Waves <= Cardinality(DOMAIN tasks))
    /\ (pc \in {"wave", "deadlock", "launch", "gather"}) ~> (pc = "review")

\* two waves and the deadlock branch for a graph with a cycle
C37_Witness ==
    /\ pc = "review"
    /\ Waves = 2
    /\ \E t \in DOMAIN tasks : t \in Reach(tasks, t)

\* the task executions in flight: the call and the task
InFlight ==
    {x \in Runs \X (TaskIds \cup {FallbackId}) :
        /\ x[2] \in DOMAIN runs[x[1]].co
        /\ runs[x[1]].co[x[2]].st = "running"}
\* the agent _execute_task acquired for it
WorkerOf(x) == runs[x[1]].co[x[2]].agent

\* C35: two task executions in flight at the same time, of one wave or of
\* concurrent runs on the same pool, never have the same worker: each is
\* assigned a working agent of the pool that no other execution in flight,
\* and no run holding a planner or critic, has.
C35_OneTaskPerWorker ==
    \A x \in InFlight :
        /\ runs[x[1]].tasks[x[2]].assigned_to = WorkerOf(x)
        /\ WorkerOf(x) \in Working(agents)
        /\ \A y \in InFlight : y # x => WorkerOf(y) # WorkerOf(x)
        /\ \A r \in Runs : runs[r].held # WorkerOf(x)

\* three executions in flight, two of one wave and one of a concurrent run,
\* two of them on the planners the runs held at the same time and released
C35_Witness ==
    /\ InFlight = {<<"A", "a1">>, <<"A", "b1">>, <<"B", "a1">>}
    /\ agents[WorkerOf(<<"A", "a1">>)].role = "planner"
    /\ agents[WorkerOf(<<"B", "a1">>)].role = "planner"
    /\ agents[WorkerOf(<<"A", "b1">>)].role = "executor"

\* the handlers called with event number n, in the order of the calls
Called(log, n) ==
    LET calls == SelectSeq(log, LAMBDA d : d[1] = n)
    IN [k \in 1..Len(calls) |-> calls[k][2]]

\* C31: whenever a handler called for an event ends, raising or not, without
\* the task having been cancelled by stop(), the delivery goes on: the next
\* handler of the list walked for the event (the handlers of the event's
\* type, then those of the base Event type) is called, and after the last
\* one every handler of the list has been called once, in order, and the
\* loop is back at its top, where a running bus waits for the next event.
C31_HandlerErrorsIsolated ==
    [][(/\ bus_task.at = "handling"
        /\ ~bus_task.cancel
        /\ bus_task' # bus_task
        /\ bus_task'.at # "handling")
       => /\ Called(delivered', bus_task.event.n) = Walked
          /\ bus_task' = AtWhile]_vars

\* C32: a bus on which nothing was called is not running; while start() is
\* the call that returned last the bus is running; while stop() is the call
\* that returned last it is not.
C32_RunningFollowsStartStop ==
    /\ last.op = "none" => ~running
    /\ last.op = "start" => running
    /\ last.op = "stop" => ~running

\* C40: once stop() has returned from ending a processing task, no event
\* published before the call of stop() is left in the queue.
C40_StopLosesNoEvent ==
    (last.op = "stop" /\ last.task)
        => \A k \in 1..Len(queue) : queue[k].n > last.before

\* C33: a session never holds more than max_messages messages, whatever
\* mix of system and other messages was added to it.
C33_WindowBounded ==
    \A sid \in DOMAIN sessions : Len(sessions[sid]) <= MaxMessages
====
